---- MODULE Spec2Model ----
(***************************************************************************)
(* Bingefy, ShowsPage (latest version of src/components/ShowsPage.tsx):    *)
(* the watch log, its normalisation, the first-unwatched resolver, the     *)
(* category build, the air-date partition and the mark / unmark handlers.  *)
(*                                                                         *)
(* Time is counted in whole seconds since the epoch; a calendar date is    *)
(* the number of the UTC day (seconds \div DaySecs), which orders dates as *)
(* the comparison of two "YYYY-MM-DD" strings does.                        *)
(***************************************************************************)
EXTENDS Integers, Sequences, FiniteSets, TLC

VARIABLES
    now,                 \* the wall clock (new Date()), in seconds
    store,               \* Firestore users/<uid>.episodesWatched: show -> list of entries
    loaded,              \* has effect 1 (getDoc) delivered the user document
    onboardedIds,        \* useState: show ids picked at onboarding
    episodesWatchedMap,  \* useState: show -> list of WatchedEntry
    error,               \* useState: the error banner ("" when none)
    ops,                 \* markAsWatched / unmarkAsWatched calls, by call id
    watchNextList,       \* useState: "Watch Next"
    watchedAWhileList,   \* useState: "Haven't Watched For A While"
    notStartedList,      \* useState: "Haven't Started"
    catRun,              \* the run of effect 2 (category build)
    upcomingList,        \* useState: "Upcoming"
    pastEpisodes,        \* useState: "Past Episodes"
    upRun,               \* the run of effect 3 (upcoming)
    pastRun,             \* the run of effect 4 (past episodes)
    resolver,            \* one show taken through the normaliser and the resolver
    oldRuns,             \* runs of effect 2 started before the latest one, still going
    watchedHistory,      \* useState: "Watch History"
    historyCount,        \* useState: how many history cards are rendered
    histRun,             \* the run of effect 5 (buildHistory)
    pastCount,           \* useState: how many past episodes are rendered
    lastScrollTop,       \* useRef: scrollTop at the previous scroll event
    activeTab,           \* useState: 0 = "Watch List", 1 = "Upcoming"
    usernames,           \* Firestore usernames/<key>: key of a document -> the uid stored
    signUps              \* the calls of AuthProvider.signUp, by call id

\* the state of the Watch History, of the lazy loading and of superseded builds
histVars == <<oldRuns, watchedHistory, historyCount, histRun, pastCount,
              lastScrollTop, activeTab>>

\* the state of the sign-up: the usernames collection and the calls
authVars == <<usernames, signUps>>

vars == <<now, store, loaded, onboardedIds, episodesWatchedMap, error, ops,
          watchNextList, watchedAWhileList, notStartedList, catRun,
          upcomingList, pastEpisodes, upRun, pastRun, resolver, histVars, authVars>>

-----------------------------------------------------------------------------
(* Bounds of the model *)

\* longest raw watch log drawn as an input
MaxLen == 3
\* most catalog requests that fail during one run of an effect
MaxFails == 1
\* number of markAsWatched / unmarkAsWatched calls issued
MaxOps == 2
\* seconds the clock advances
MaxTicks == 1

-----------------------------------------------------------------------------
(* Time *)

DaySecs == 24 * 60 * 60

\* 30 * 24 * 60 * 60 * 1000 ms, in seconds
ThirtyDays == 30 * DaySecs

\* the clock at the start: 23:59:59 UTC of day 39
T0 == 40 * DaySecs - 1

\* new Date().toISOString().split("T")[0]
TodayOf(t) == t \div DaySecs

\* an empty or missing air_date
NoDate == 0

-----------------------------------------------------------------------------
(* The catalog (TMDB) the page reads *)

Shows == {1, 2}

\* TVShow.number_of_seasons
NumberOfSeasons(showId) == IF showId = 1 THEN 2 ELSE 1

\* SeasonDetail.episodes, in the order the catalog lists them
SeasonEpisodes(showId, seasonNum) ==
    IF showId = 1 /\ seasonNum = 1 THEN
        << [episode_number |-> 2, air_date |-> TodayOf(T0)],
           [episode_number |-> 1, air_date |-> TodayOf(T0) - 1] >>
    ELSE IF showId = 1 /\ seasonNum = 2 THEN
        << [episode_number |-> 1, air_date |-> TodayOf(T0) + 1] >>
    ELSE IF showId = 2 /\ seasonNum = 1 THEN
        << [episode_number |-> 1, air_date |-> NoDate],
           [episode_number |-> 2, air_date |-> TodayOf(T0)] >>
    ELSE << >>

\* the (season, episode) pairs of a show in the catalog
CatalogPairs(showId) ==
    UNION { { <<s, SeasonEpisodes(showId, s)[i].episode_number>> :
                i \in 1..Len(SeasonEpisodes(showId, s)) } :
            s \in 1..NumberOfSeasons(showId) }

\* EpisodeDetail.air_date
EpisodeAirDate(showId, seasonNum, episodeNum) ==
    LET eps == SeasonEpisodes(showId, seasonNum)
        i   == CHOOSE i \in 1..Len(eps) : eps[i].episode_number = episodeNum
    IN  eps[i].air_date

\* One request to the catalog. getTVShowDetails is called up to twice for a
\* show in one run of an effect: call is 1 or 2; it is 0 for the others.
F_Show(showId, n) ==
    [fn |-> "getTVShowDetails", show |-> showId, season |-> 0, episode |-> 0, call |-> n]
F_Season(showId, seasonNum) ==
    [fn |-> "getSeasonDetails", show |-> showId, season |-> seasonNum, episode |-> 0, call |-> 0]
F_Episode(showId, seasonNum, episodeNum) ==
    [fn |-> "getEpisodeDetails", show |-> showId, season |-> seasonNum,
     episode |-> episodeNum, call |-> 0]

\* every request one run of an effect can make for a show
Requests(showId) ==
    { F_Show(showId, 1), F_Show(showId, 2) }
    \cup { F_Season(showId, s) : s \in 1..NumberOfSeasons(showId) }
    \cup { F_Episode(showId, p[1], p[2]) : p \in CatalogPairs(showId) }
    \cup { F_Episode(showId, 1, 1) }

-----------------------------------------------------------------------------
(* Watched entries *)

Entry(s, e, t) == [season |-> s, episode |-> e, watchedAt |-> t]

\* new Date(watchedAt).getTime(), for a watchedAt written by toISOString()
TimeOf(watchedAt) == watchedAt

\* a watchedAt that new Date() cannot parse: its getTime() is NaN
InvalidDate == -1

\* new Date(a) > new Date(b): false when either side is an Invalid Date
DateAfter(a, b) == a # InvalidDate /\ b # InvalidDate /\ TimeOf(a) > TimeOf(b)

\* `${season}|${episode}`
KeyOf(we) == <<we.season, we.episode>>

PairsOf(entries) == { KeyOf(entries[i]) : i \in 1..Len(entries) }

\* (season, episode) order: by season number, then by episode number
Before(p, q) == p[1] < q[1] \/ (p[1] = q[1] /\ p[2] < q[2])

\* DedupeStep without the comparison of the timestamps: the first entry of a pair stays
DedupeStep_KeepFirst(acc, e) ==
    IF \E i \in 1..Len(acc) : KeyOf(acc[i]) = KeyOf(e) THEN acc ELSE Append(acc, e)

\* DedupeStep that stores a new pair with its two numbers exchanged, as if the
\* entry were rebuilt from the key with [episode, season] = key.split("|")
DedupeStep_KeyFieldsSwapped(acc, e) ==
    IF \E i \in 1..Len(acc) : KeyOf(acc[i]) = KeyOf(e)
    THEN LET i == CHOOSE i \in 1..Len(acc) : KeyOf(acc[i]) = KeyOf(e)
         IN  IF DateAfter(e.watchedAt, acc[i].watchedAt)
             THEN [acc EXCEPT ![i] = e]
             ELSE acc
    ELSE Append(acc, Entry(e.episode, e.season, e.watchedAt))

\* one turn of the loop of dedupeWatchedEntries; acc is Object.values(map)
DedupeStep(acc, e) ==
    IF \E i \in 1..Len(acc) : KeyOf(acc[i]) = KeyOf(e)
    THEN LET i == CHOOSE i \in 1..Len(acc) : KeyOf(acc[i]) = KeyOf(e)
         IN  IF DateAfter(e.watchedAt, acc[i].watchedAt)
             THEN [acc EXCEPT ![i] = e]
             ELSE acc
    ELSE Append(acc, e)

RECURSIVE DedupeFrom(_, _)
DedupeFrom(acc, entries) ==
    IF entries = << >> THEN acc
    ELSE DedupeFrom(DedupeStep(acc, Head(entries)), Tail(entries))

dedupeWatchedEntries(entries) == DedupeFrom(<< >>, entries)

-----------------------------------------------------------------------------
(* The resolver *)

RECURSIVE InsertAsc(_, _)
InsertAsc(x, s) ==
    IF s = << >> THEN <<x>>
    ELSE IF x < Head(s) THEN <<x>> \o s
    ELSE <<Head(s)>> \o InsertAsc(x, Tail(s))

RECURSIVE SortAsc(_)
\* .sort((a, b) => a - b)
SortAsc(s) == IF s = << >> THEN << >> ELSE InsertAsc(Head(s), SortAsc(Tail(s)))

\* EpisodeNumbers without the sort: the order of the listing
EpisodeNumbers_Unsorted(showId, seasonNum) ==
    [i \in 1..Len(SeasonEpisodes(showId, seasonNum)) |->
        SeasonEpisodes(showId, seasonNum)[i].episode_number]

\* seasonObj.episodes.map((ep) => ep.episode_number).sort((a, b) => a - b)
EpisodeNumbers(showId, seasonNum) ==
    SortAsc([i \in 1..Len(SeasonEpisodes(showId, seasonNum)) |->
                SeasonEpisodes(showId, seasonNum)[i].episode_number])

Found(s, e) == [kind |-> "found", season |-> s, episode |-> e]
AllWatched  == [kind |-> "null",  season |-> 0, episode |-> 0]
\* the exception of a request: of getEpisodeDetails for (s, e), or of
\* getTVShowDetails when s and e are 0
ThrownAt(s, e) == [kind |-> "throw", season |-> s, episode |-> e]
NotCalled   == [kind |-> "none",  season |-> 0, episode |-> 0]

RECURSIVE FirstMissing_SwappedKey(_, _, _)
\* FirstMissing with the key built as `${epNum}|${seasonNum}`
FirstMissing_SwappedKey(eps, seasonNum, watchedSet) ==
    IF eps = << >> THEN 0
    ELSE IF <<Head(eps), seasonNum>> \notin watchedSet THEN Head(eps)
    ELSE FirstMissing_SwappedKey(Tail(eps), seasonNum, watchedSet)

RECURSIVE FirstMissing(_, _, _)
\* the inner loop: the first epNum with !watchedSet.has(`${seasonNum}|${epNum}`), 0 if none
FirstMissing(eps, seasonNum, watchedSet) ==
    IF eps = << >> THEN 0
    ELSE IF <<seasonNum, Head(eps)>> \notin watchedSet THEN Head(eps)
    ELSE FirstMissing(Tail(eps), seasonNum, watchedSet)

RECURSIVE WalkSeasons_AbortOnMissingSeason(_, _, _, _)
\* WalkSeasons without the catch: a season that cannot be fetched ends the walk
WalkSeasons_AbortOnMissingSeason(showId, seasonNum, watchedSet, fails) ==
    IF seasonNum > NumberOfSeasons(showId) THEN AllWatched
    ELSE IF F_Season(showId, seasonNum) \in fails THEN AllWatched
    ELSE LET epNum == FirstMissing(EpisodeNumbers(showId, seasonNum), seasonNum, watchedSet)
         IN  IF epNum = 0
             THEN WalkSeasons_AbortOnMissingSeason(showId, seasonNum + 1, watchedSet, fails)
             ELSE IF F_Episode(showId, seasonNum, epNum) \in fails
                  THEN ThrownAt(seasonNum, epNum)
             ELSE Found(seasonNum, epNum)

RECURSIVE WalkSeasons(_, _, _, _)
\* the season loop of findFirstUnwatchedEpisode, from seasonNum on
WalkSeasons(showId, seasonNum, watchedSet, fails) ==
    IF seasonNum > NumberOfSeasons(showId) THEN AllWatched
    ELSE IF F_Season(showId, seasonNum) \in fails
    THEN WalkSeasons(showId, seasonNum + 1, watchedSet, fails)
    ELSE LET epNum == FirstMissing(EpisodeNumbers(showId, seasonNum), seasonNum, watchedSet)
         IN  IF epNum = 0
             THEN WalkSeasons(showId, seasonNum + 1, watchedSet, fails)
             ELSE IF F_Episode(showId, seasonNum, epNum) \in fails
                  THEN ThrownAt(seasonNum, epNum)
             ELSE Found(seasonNum, epNum)

findFirstUnwatchedEpisode(showId, deduped, fails) ==
    IF F_Show(showId, 1) \in fails THEN ThrownAt(0, 0)
    ELSE WalkSeasons(showId, 1, PairsOf(deduped), fails)

-----------------------------------------------------------------------------
(* The body of the loop of the category build, for one show *)

RECURSIVE InsertByTimeDesc(_, _)
InsertByTimeDesc(x, s) ==
    IF s = << >> THEN <<x>>
    ELSE IF TimeOf(Head(s).watchedAt) > TimeOf(x.watchedAt)
         THEN <<Head(s)>> \o InsertByTimeDesc(x, Tail(s))
         ELSE <<x>> \o s

RECURSIVE SortByTimeDesc(_)
\* .sort((a, b) => new Date(b.watchedAt).getTime() - new Date(a.watchedAt).getTime())
SortByTimeDesc(s) ==
    IF s = << >> THEN << >> ELSE InsertByTimeDesc(Head(s), SortByTimeDesc(Tail(s)))

\* thirtyDaysAgo with the 30 days added to now instead of subtracted
thirtyDaysAgo_Ahead(nowT) == nowT + ThirtyDays

\* new Date(now.getTime() - 30 * 24 * 60 * 60 * 1000).toISOString()
thirtyDaysAgo(nowT) == nowT - ThirtyDays

\* latestWatched with the comparator a - b: the head is the oldest entry
latestWatched_OldestFirst(uniqueEntries) ==
    SortByTimeDesc(uniqueEntries)[Len(uniqueEntries)]

\* latestWatched: the head of the entries sorted by time, latest first
latestWatched(uniqueEntries) == Head(SortByTimeDesc(uniqueEntries))

\* new Date(latestWatched.watchedAt) > new Date(thirtyDaysAgo)
WatchedRecently(uniqueEntries, nowT) ==
    TimeOf(latestWatched(uniqueEntries).watchedAt) > TimeOf(thirtyDaysAgo(nowT))

Outcome(k, s, e) == [kind |-> k, season |-> s, episode |-> e]

\* NeverWatched without the inner try: a missing S1E1 is thrown to the build
NeverWatched_Throws(showId, fails) ==
    IF F_Episode(showId, 1, 1) \in fails \/ F_Show(showId, 1) \in fails
    THEN Outcome("throw", 0, 0)
    ELSE Outcome("notStarted", 1, 1)

\* the branch uniqueEntries.length === 0: getEpisodeDetails(showId, 1, 1), then
\* getTVShowDetails(showId), both inside one try whose catch skips the show
NeverWatched(showId, fails) ==
    IF F_Episode(showId, 1, 1) \in fails \/ F_Show(showId, 1) \in fails
    THEN Outcome("skipped", 0, 0)
    ELSE Outcome("notStarted", 1, 1)

\* what one turn of the loop over onboardedIds does with a show:
\* "notStarted" | "next" | "stale": the push; "skipped" | "complete": continue;
\* "throw": an exception that leaves the loop
ClassifyShow(showId, rawEntries, nowT, fails) ==
    LET uniqueEntries == dedupeWatchedEntries(rawEntries) IN
    IF Len(uniqueEntries) = 0 THEN NeverWatched(showId, fails)
    ELSE LET firstUnwatched == findFirstUnwatchedEpisode(showId, uniqueEntries, fails) IN
         IF firstUnwatched.kind = "throw" THEN Outcome("throw", 0, 0)
         ELSE IF firstUnwatched.kind = "null" THEN Outcome("complete", 0, 0)
         ELSE IF F_Show(showId, 2) \in fails THEN Outcome("throw", 0, 0)
         ELSE IF WatchedRecently(uniqueEntries, nowT)
              THEN Outcome("next", firstUnwatched.season, firstUnwatched.episode)
              ELSE Outcome("stale", firstUnwatched.season, firstUnwatched.episode)

\* the entries that can be at the head of uniqueEntries after the sort: the
\* latest one when every watchedAt parses; when one does not, the comparator
\* returns NaN for it and the order the sort leaves is implementation-defined
SortedHeads(uniqueEntries) ==
    IF \A i \in 1..Len(uniqueEntries) : uniqueEntries[i].watchedAt # InvalidDate
    THEN {latestWatched(uniqueEntries)}
    ELSE { uniqueEntries[i] : i \in 1..Len(uniqueEntries) }

\* one turn of the loop over onboardedIds on a log that may hold a watchedAt
\* that does not parse: the outcomes the turn can have
ClassifyAnyLog(showId, rawEntries, nowT, fails) ==
    LET uniqueEntries == dedupeWatchedEntries(rawEntries) IN
    IF Len(uniqueEntries) = 0 THEN {NeverWatched(showId, fails)}
    ELSE LET firstUnwatched == findFirstUnwatchedEpisode(showId, uniqueEntries, fails) IN
         IF firstUnwatched.kind = "throw" THEN {Outcome("throw", 0, 0)}
         ELSE IF firstUnwatched.kind = "null" THEN {Outcome("complete", 0, 0)}
         ELSE IF F_Show(showId, 2) \in fails THEN {Outcome("throw", 0, 0)}
         ELSE { IF DateAfter(h.watchedAt, thirtyDaysAgo(nowT))
                THEN Outcome("next", firstUnwatched.season, firstUnwatched.episode)
                ELSE Outcome("stale", firstUnwatched.season, firstUnwatched.episode) :
                h \in SortedHeads(uniqueEntries) }

\* the requests one turn of the loop sends, given which of them fail: a request
\* is sent only when the code reaches it
RequestsMade(showId, rawEntries, fails) ==
    LET uniqueEntries == dedupeWatchedEntries(rawEntries) IN
    IF Len(uniqueEntries) = 0
    THEN {F_Episode(showId, 1, 1)}
         \cup (IF F_Episode(showId, 1, 1) \in fails THEN {} ELSE {F_Show(showId, 1)})
    ELSE LET r    == findFirstUnwatchedEpisode(showId, uniqueEntries, fails)
             last == IF r.kind = "null" THEN NumberOfSeasons(showId) ELSE r.season
         IN  {F_Show(showId, 1)}
             \cup (IF F_Show(showId, 1) \in fails THEN {}
                   ELSE { F_Season(showId, sn) : sn \in 1..last }
                        \cup (IF r.kind = "null" THEN {}
                              ELSE {F_Episode(showId, r.season, r.episode)})
                        \cup (IF r.kind = "found" THEN {F_Show(showId, 2)} ELSE {}))

\* the answers of the catalog to one turn: the failing requests among those sent
Answers(showId, rawEntries, already) ==
    { f \in SUBSET Requests(showId) :
        /\ Cardinality(already \cup f) <= MaxFails
        /\ f \subseteq RequestsMade(showId, rawEntries, f) }

-----------------------------------------------------------------------------
(* Values of the variables a specification does not use *)

OpIds == 1..MaxOps
IdleOp ==
    [pc |-> "idle", kind |-> "none", showId |-> 0, season |-> 0, episode |-> 0,
     existingArray |-> << >>, updatedArray |-> << >>, during |-> {}, sentAt |-> 0]
NoOps == [o \in OpIds |-> IdleOp]
NoRun ==
    [pc |-> "idle", today |-> 0, ids |-> << >>, at |-> << >>, acc |-> << >>, fails |-> {}]
IdleCatRun ==
    [pc |-> "idle", ids |-> << >>, map |-> [x \in Shows |-> << >>], now |-> 0, idx |-> 0,
     nextArr |-> << >>, aWhileArr |-> << >>, notStartedArr |-> << >>,
     fails |-> {}, outcomes |-> << >>]
NoResolver == [pc |-> "idle"]
NoHistRun == [pc |-> "idle", entries |-> << >>, idx |-> 0, result |-> << >>, fails |-> {}]

\* useState(5) of historyCount and of pastCount
PageSize == 5

\* the Watch History not built, nothing scrolled, no superseded build
HistIdle ==
    /\ oldRuns = << >>
    /\ watchedHistory = << >>
    /\ historyCount = PageSize
    /\ histRun = NoHistRun
    /\ pastCount = PageSize
    /\ lastScrollTop = 0
    /\ activeTab = 0
EmptyMap == [x \in Shows |-> << >>]

\* the calls of signUp, and a call not made yet
SignUpIds == {1, 2}
IdleSignUp == [pc |-> "idle", usernameInput |-> << >>, unameKey |-> << >>, uid |-> 0,
               thrown |-> ""]

\* no usernames document, no sign-up called
AuthIdle ==
    /\ usernames = [k \in {} |-> 0]
    /\ signUps = [c \in SignUpIds |-> IdleSignUp]

-----------------------------------------------------------------------------
(* SpecResolver: one show's raw watch log taken through dedupeWatchedEntries, *)
(* findFirstUnwatchedEpisode and the Next / Stale decision                    *)

SeqsUpTo(S, n) == UNION { [1..k -> S] : k \in 0..n }

\* watchedAt values around the 30-day boundary of a build that runs at T0
Stamps == { T0 - ThirtyDays - 1, T0 - ThirtyDays, T0 - ThirtyDays + 1 }

EntriesOf(showId, stamps) ==
    { Entry(p[1], p[2], t) : p \in CatalogPairs(showId), t \in stamps }

ResolverInputs ==
    UNION { { [pc |-> "input", show |-> x, raw |-> r, fails |-> {},
               deduped |-> << >>, found |-> NotCalled, cat |-> Outcome("none", 0, 0)] :
               r \in SeqsUpTo(EntriesOf(x, Stamps), MaxLen) } :
            x \in Shows }

InitResolver ==
    /\ now = T0
    /\ store = EmptyMap
    /\ loaded = FALSE
    /\ onboardedIds = << >>
    /\ episodesWatchedMap = EmptyMap
    /\ error = ""
    /\ ops = NoOps
    /\ watchNextList = << >>
    /\ watchedAWhileList = << >>
    /\ notStartedList = << >>
    /\ catRun = IdleCatRun
    /\ upcomingList = << >>
    /\ pastEpisodes = << >>
    /\ upRun = NoRun
    /\ pastRun = NoRun
    /\ resolver \in ResolverInputs
    /\ HistIdle
    /\ AuthIdle

pageVars == <<now, store, loaded, onboardedIds, episodesWatchedMap, error, ops,
              watchNextList, watchedAWhileList, notStartedList, catRun,
              upcomingList, pastEpisodes, upRun, pastRun, histVars, authVars>>

\* const uniqueEntries = dedupeWatchedEntries(rawEntries)
NormalizeEntries ==
    /\ resolver.pc = "input"
    /\ resolver' = [resolver EXCEPT !.pc = "normalized",
                                    !.deduped = dedupeWatchedEntries(resolver.raw)]
    /\ UNCHANGED pageVars

\* the rest of the turn of the loop, with the answers of the catalog: the
\* resolver and the bucket
ResolveEntries ==
    /\ resolver.pc = "normalized"
    /\ \E f \in Answers(resolver.show, resolver.raw, {}) :
         resolver' =
           [resolver EXCEPT
              !.pc = "done",
              !.fails = f,
              !.found = IF Len(resolver.deduped) = 0 THEN NotCalled
                        ELSE findFirstUnwatchedEpisode(resolver.show, resolver.deduped, f),
              !.cat = ClassifyShow(resolver.show, resolver.raw, now, f)]
    /\ UNCHANGED pageVars

NextResolver == NormalizeEntries \/ ResolveEntries

SpecResolver == InitResolver /\ [][NextResolver]_vars

-----------------------------------------------------------------------------
(* SpecNormalizer: dedupeWatchedEntries applied to raw logs of show 2 whose  *)
(* watchedAt may be a string that is not a date                              *)

\* watchedAt values of a stored log: two instants and a malformed string
RawStamps == { InvalidDate, T0 - 2, T0 - 1 }

NormalizerInputs ==
    { [pc |-> "input", show |-> 2, raw |-> r, fails |-> {},
       deduped |-> << >>, found |-> NotCalled, cat |-> Outcome("none", 0, 0)] :
       r \in SeqsUpTo(EntriesOf(2, RawStamps), MaxLen) }

InitNormalizer ==
    /\ now = T0
    /\ store = EmptyMap
    /\ loaded = FALSE
    /\ onboardedIds = << >>
    /\ episodesWatchedMap = EmptyMap
    /\ error = ""
    /\ ops = NoOps
    /\ watchNextList = << >>
    /\ watchedAWhileList = << >>
    /\ notStartedList = << >>
    /\ catRun = IdleCatRun
    /\ upcomingList = << >>
    /\ pastEpisodes = << >>
    /\ upRun = NoRun
    /\ pastRun = NoRun
    /\ resolver \in NormalizerInputs
    /\ HistIdle
    /\ AuthIdle

\* the rest of the turn of the loop on the normalised log
ClassifyNormalized ==
    /\ resolver.pc = "normalized"
    /\ \E f \in Answers(resolver.show, resolver.raw, {}) :
         \E c \in ClassifyAnyLog(resolver.show, resolver.raw, now, f) :
            resolver' =
              [resolver EXCEPT
                 !.pc = "done",
                 !.fails = f,
                 !.found = IF Len(resolver.deduped) = 0 THEN NotCalled
                           ELSE findFirstUnwatchedEpisode(resolver.show, resolver.deduped, f),
                 !.cat = c]
    /\ UNCHANGED pageVars

NextNormalizer == NormalizeEntries \/ ClassifyNormalized

SpecNormalizer == InitNormalizer /\ [][NextNormalizer]_vars

-----------------------------------------------------------------------------
(* SpecBuilder: effect 2, the category build, run on a loaded page *)

EpisodeInfo(showId, s, e) ==
    [showId |-> showId, season |-> s, episode |-> e,
     air_date |-> EpisodeAirDate(showId, s, e)]

\* the orders in which the shows of the catalog can be onboarded
IdLists ==
    { ids \in SeqsUpTo(Shows, Cardinality(Shows)) :
        \A i, j \in 1..Len(ids) : i # j => ids[i] # ids[j] }

\* watchedAt values of the logs a build at T0 reads: on and after the boundary
BuilderStamps == { T0 - ThirtyDays, T0 - ThirtyDays + 1 }

RECURSIVE LogOf(_, _)
\* a log of the pairs of a set, in (season, episode) order, all watched at t
LogOf(pairs, t) ==
    IF pairs = {} THEN << >>
    ELSE LET p == CHOOSE q \in pairs : \A r \in pairs : r = q \/ Before(q, r)
         IN  <<Entry(p[1], p[2], t)>> \o LogOf(pairs \ {p}, t)

\* for each show a log of any set of its catalog episodes
BuilderLogs(x) == { LogOf(w, t) : w \in SUBSET CatalogPairs(x), t \in BuilderStamps }

BuilderMaps ==
    { [x \in Shows |-> IF x = 1 THEN a ELSE b] : a \in BuilderLogs(1), b \in BuilderLogs(2) }

InitBuilder ==
    /\ now = T0
    /\ onboardedIds \in IdLists
    /\ episodesWatchedMap \in BuilderMaps
    /\ store = episodesWatchedMap
    /\ loaded = TRUE
    /\ error = ""
    /\ ops = NoOps
    /\ watchNextList = << >>
    /\ watchedAWhileList = << >>
    /\ notStartedList = << >>
    /\ catRun = IdleCatRun
    /\ upcomingList = << >>
    /\ pastEpisodes = << >>
    /\ upRun = NoRun
    /\ pastRun = NoRun
    /\ resolver = NoResolver
    /\ HistIdle
    /\ AuthIdle

\* the effect body up to the loop: the early return of an empty list, or
\* now, thirtyDaysAgo and the three empty arrays
CategoryEffectStart ==
    /\ loaded
    /\ catRun.pc = "idle"
    /\ IF Len(onboardedIds) = 0
       THEN /\ watchNextList' = << >>
            /\ watchedAWhileList' = << >>
            /\ notStartedList' = << >>
            /\ catRun' = [catRun EXCEPT !.pc = "done"]
       ELSE /\ catRun' = [IdleCatRun EXCEPT !.pc = "running", !.ids = onboardedIds,
                                            !.map = episodesWatchedMap, !.now = now,
                                            !.idx = 1]
            /\ UNCHANGED <<watchNextList, watchedAWhileList, notStartedList>>
    /\ UNCHANGED <<now, store, loaded, onboardedIds, episodesWatchedMap, error, ops,
                   upcomingList, pastEpisodes, upRun, pastRun, resolver, histVars, authVars>>

\* CategoryEffectShow with the else of the 30-day test missing: a show watched
\* recently is pushed to nextArr and to aWhileArr
CategoryEffectShow_NoElse ==
    /\ catRun.pc = "running"
    /\ catRun.idx <= Len(catRun.ids)
    /\ LET showId == catRun.ids[catRun.idx] IN
       \E f \in Answers(showId, catRun.map[showId], catRun.fails) :
            LET out == ClassifyShow(showId, catRun.map[showId], catRun.now, f)
                info == EpisodeInfo(showId, out.season, out.episode)
                seen == [catRun EXCEPT !.fails = @ \cup f, !.outcomes = Append(@, out)]
            IN  IF out.kind = "throw"
                THEN /\ catRun' = [seen EXCEPT !.pc = "aborted"]
                     /\ error' = "Failed to build your watch categories."
                ELSE /\ catRun' =
                          [seen EXCEPT
                             !.idx = @ + 1,
                             !.nextArr = IF out.kind = "next" THEN Append(@, info) ELSE @,
                             !.aWhileArr = IF out.kind \in {"stale", "next"}
                                           THEN Append(@, info) ELSE @,
                             !.notStartedArr =
                                 IF out.kind = "notStarted" THEN Append(@, info) ELSE @]
                     /\ UNCHANGED error
    /\ UNCHANGED <<now, store, loaded, onboardedIds, episodesWatchedMap, ops,
                   watchNextList, watchedAWhileList, notStartedList,
                   upcomingList, pastEpisodes, upRun, pastRun, resolver, histVars, authVars>>

\* one turn of for (const showId of onboardedIds), with the answers of the catalog;
\* an exception leaves the loop for the outer catch: console.error and setError
CategoryEffectShow ==
    /\ catRun.pc = "running"
    /\ catRun.idx <= Len(catRun.ids)
    /\ LET showId == catRun.ids[catRun.idx] IN
       \E f \in Answers(showId, catRun.map[showId], catRun.fails) :
            LET out == ClassifyShow(showId, catRun.map[showId], catRun.now, f)
                info == EpisodeInfo(showId, out.season, out.episode)
                seen == [catRun EXCEPT !.fails = @ \cup f, !.outcomes = Append(@, out)]
            IN  IF out.kind = "throw"
                THEN /\ catRun' = [seen EXCEPT !.pc = "aborted"]
                     /\ error' = "Failed to build your watch categories."
                ELSE /\ catRun' =
                          [seen EXCEPT
                             !.idx = @ + 1,
                             !.nextArr = IF out.kind = "next" THEN Append(@, info) ELSE @,
                             !.aWhileArr = IF out.kind = "stale" THEN Append(@, info) ELSE @,
                             !.notStartedArr =
                                 IF out.kind = "notStarted" THEN Append(@, info) ELSE @]
                     /\ UNCHANGED error
    /\ UNCHANGED <<now, store, loaded, onboardedIds, episodesWatchedMap, ops,
                   watchNextList, watchedAWhileList, notStartedList,
                   upcomingList, pastEpisodes, upRun, pastRun, resolver, histVars, authVars>>

\* after the loop: setWatchNextList, setWatchedAWhileList, setNotStartedList
CategoryEffectFinish ==
    /\ catRun.pc = "running"
    /\ catRun.idx > Len(catRun.ids)
    /\ watchNextList' = catRun.nextArr
    /\ watchedAWhileList' = catRun.aWhileArr
    /\ notStartedList' = catRun.notStartedArr
    /\ catRun' = [catRun EXCEPT !.pc = "done"]
    /\ UNCHANGED <<now, store, loaded, onboardedIds, episodesWatchedMap, error, ops,
                   upcomingList, pastEpisodes, upRun, pastRun, resolver, histVars, authVars>>

NextBuilder == CategoryEffectStart \/ CategoryEffectShow \/ CategoryEffectFinish

SpecBuilder == InitBuilder /\ [][NextBuilder]_vars

-----------------------------------------------------------------------------
(* Spec: the page from its mount: effect 1 loads the user document, then the *)
(* user marks and unmarks episodes while the clock runs                      *)

\* data.showsOnboarded of the user document
DocOnboarded == <<1, 2>>

\* data.episodesWatched of the user document when the page mounts
InitialStores ==
    { [x \in Shows |-> IF x = 1 THEN << >> ELSE LogOf({<<1, 1>>}, T0 - ThirtyDays)] }

Init ==
    /\ now = T0
    /\ store \in InitialStores
    /\ loaded = FALSE
    /\ onboardedIds = << >>
    /\ episodesWatchedMap = EmptyMap
    /\ error = ""
    /\ ops = NoOps
    /\ watchNextList = << >>
    /\ watchedAWhileList = << >>
    /\ notStartedList = << >>
    /\ catRun = IdleCatRun
    /\ upcomingList = << >>
    /\ pastEpisodes = << >>
    /\ upRun = NoRun
    /\ pastRun = NoRun
    /\ resolver = NoResolver
    /\ HistIdle
    /\ AuthIdle

buildVars == <<watchNextList, watchedAWhileList, notStartedList, catRun,
               upcomingList, pastEpisodes, upRun, pastRun, resolver, histVars, authVars>>

\* the clock advances by a second
Tick ==
    /\ now < T0 + MaxTicks
    /\ now' = now + 1
    /\ UNCHANGED <<store, loaded, onboardedIds, episodesWatchedMap, error, ops>>
    /\ UNCHANGED buildVars

\* effect 1: getDoc, then setOnboardedIds(ids) and setEpisodesWatchedMap(watchedMap)
LoadUserDoc ==
    /\ ~loaded
    /\ loaded' = TRUE
    /\ onboardedIds' = DocOnboarded
    /\ episodesWatchedMap' = store
    /\ UNCHANGED <<now, store, error, ops>>
    /\ UNCHANGED buildVars

\* effect 1 when getDoc rejects: the catch sets the error, the state stays empty
LoadUserDocFails ==
    /\ ~loaded
    /\ loaded' = TRUE
    /\ error' = "Failed to load your watch history."
    /\ UNCHANGED <<now, store, onboardedIds, episodesWatchedMap, ops>>
    /\ UNCHANGED buildVars

\* the calls that have been made and whose handler has not finished
InFlight == { o \in OpIds : ops[o].pc \in {"animating", "writing", "written"} }

\* calls are numbered in the order they are made
NextCall(o) == ops[o].pc = "idle" /\ \A k \in OpIds : k < o => ops[k].pc # "idle"

\* the episodes a card or the modal can show: those of the onboarded shows
Shown(showId, s, e) ==
    /\ \E i \in 1..Len(onboardedIds) : onboardedIds[i] = showId
    /\ <<s, e>> \in CatalogPairs(showId)

\* [...existingArray, newEntry]
WithNewEntry(existingArray, s, e, nowISO) == Append(existingArray, Entry(s, e, nowISO))

\* existingArray.filter((we) => !(we.season === epi.season && we.episode === epi.episode))
WithoutEpisode(existingArray, s, e) ==
    SelectSeq(existingArray, LAMBDA we : ~(we.season = s /\ we.episode = e))

\* the writes of one client go to Firestore through one queue: they are applied
\* (or rejected) in the order of the updateDoc calls, and their promises are
\* settled in that order; sentAt numbers the updateDoc calls
NextSendNumber == 1 + Cardinality({ k \in OpIds : ops[k].sentAt # 0 })

\* the updateDoc calls made before that of call o
SentBefore(o) == { k \in OpIds : ops[k].sentAt # 0 /\ ops[k].sentAt < ops[o].sentAt }

\* the writes before that of call o have reached the store (or were rejected)
EarlierApplied(o) == \A k \in SentBefore(o) : ops[k].pc \in {"written", "done", "failed"}

\* the promises of the writes before that of call o are settled
EarlierSettled(o) == \A k \in SentBefore(o) : ops[k].pc \in {"done", "failed"}

\* the check button of an episode card of the Watch List: the click starts the
\* animation and a 400 ms timer; the timer will call the markAsWatched of the
\* render of the click, which holds the episodesWatchedMap of that render
CardMarkClick(o, showId, s, e) ==
    /\ loaded
    /\ NextCall(o)
    /\ Shown(showId, s, e)
    /\ <<s, e>> \notin PairsOf(episodesWatchedMap[showId])
    /\ ~\E k \in OpIds : /\ ops[k].pc = "animating"
                          /\ <<ops[k].showId, ops[k].season, ops[k].episode>> = <<showId, s, e>>
    /\ ops' = [ops EXCEPT ![o] =
                  [IdleOp EXCEPT !.pc = "animating", !.kind = "mark", !.showId = showId,
                                 !.season = s, !.episode = e,
                                 !.existingArray = episodesWatchedMap[showId],
                                 !.during = InFlight]]
    /\ UNCHANGED <<now, store, loaded, onboardedIds, episodesWatchedMap, error>>
    /\ UNCHANGED buildVars

\* markAsWatched up to its await: nowISO, updatedArray, and updateDoc is sent
CardMarkTimer(o) ==
    /\ ops[o].pc = "animating"
    /\ ops' = [ops EXCEPT ![o].pc = "writing",
                          ![o].sentAt = NextSendNumber,
                          ![o].updatedArray =
                              WithNewEntry(ops[o].existingArray, ops[o].season,
                                           ops[o].episode, now)]
    /\ UNCHANGED <<now, store, loaded, onboardedIds, episodesWatchedMap, error>>
    /\ UNCHANGED buildVars

\* the button of the modal on an episode that is not watched: markAsWatched at once
ModalMark(o, showId, s, e) ==
    /\ loaded
    /\ NextCall(o)
    /\ Shown(showId, s, e)
    /\ <<s, e>> \notin PairsOf(episodesWatchedMap[showId])
    /\ ops' = [ops EXCEPT ![o] =
                  [IdleOp EXCEPT !.pc = "writing", !.kind = "mark", !.showId = showId,
                                 !.season = s, !.episode = e,
                                 !.existingArray = episodesWatchedMap[showId],
                                 !.updatedArray =
                                     WithNewEntry(episodesWatchedMap[showId], s, e, now),
                                 !.during = InFlight,
                                 !.sentAt = NextSendNumber]]
    /\ UNCHANGED <<now, store, loaded, onboardedIds, episodesWatchedMap, error>>
    /\ UNCHANGED buildVars

\* the check of a history card or of the modal on a watched episode, window.confirm
\* answered with OK: unmarkAsWatched up to its await
ConfirmedUnmark(o, showId, s, e) ==
    /\ loaded
    /\ NextCall(o)
    /\ <<s, e>> \in PairsOf(episodesWatchedMap[showId])
    /\ ops' = [ops EXCEPT ![o] =
                  [IdleOp EXCEPT !.pc = "writing", !.kind = "unmark", !.showId = showId,
                                 !.season = s, !.episode = e,
                                 !.existingArray = episodesWatchedMap[showId],
                                 !.updatedArray =
                                     WithoutEpisode(episodesWatchedMap[showId], s, e),
                                 !.during = InFlight,
                                 !.sentAt = NextSendNumber]]
    /\ UNCHANGED <<now, store, loaded, onboardedIds, episodesWatchedMap, error>>
    /\ UNCHANGED buildVars

\* StoreApplies of a handler that writes the whole episodesWatched map:
\* updateDoc(userRef, {episodesWatched: {...episodesWatchedMap, [showId]: updatedArray}})
StoreApplies_WholeDocument(o) ==
    /\ ops[o].pc = "writing"
    /\ EarlierApplied(o)
    /\ store' = [x \in Shows |-> IF x = ops[o].showId THEN ops[o].updatedArray
                                 ELSE episodesWatchedMap[x]]
    /\ ops' = [ops EXCEPT ![o].pc = "written"]
    /\ UNCHANGED <<now, loaded, onboardedIds, episodesWatchedMap, error>>
    /\ UNCHANGED buildVars

\* StoreApplies of handlers that send arrayUnion(newEntry) and arrayRemove: the
\* store's own array is extended or filtered
StoreApplies_ArrayUnion(o) ==
    /\ ops[o].pc = "writing"
    /\ EarlierApplied(o)
    /\ store' = [store EXCEPT ![ops[o].showId] =
                    IF ops[o].kind = "mark"
                    THEN Append(@, ops[o].updatedArray[Len(ops[o].updatedArray)])
                    ELSE WithoutEpisode(@, ops[o].season, ops[o].episode)]
    /\ ops' = [ops EXCEPT ![o].pc = "written"]
    /\ UNCHANGED <<now, loaded, onboardedIds, episodesWatchedMap, error>>
    /\ UNCHANGED buildVars

\* Firestore applies updateDoc(userRef, {[`episodesWatched.${showId}`]: updatedArray}):
\* the field of the one show is replaced by the array sent; writes are applied
\* in the order they were sent
StoreApplies(o) ==
    /\ ops[o].pc = "writing"
    /\ EarlierApplied(o)
    /\ store' = [store EXCEPT ![ops[o].showId] = ops[o].updatedArray]
    /\ ops' = [ops EXCEPT ![o].pc = "written"]
    /\ UNCHANGED <<now, loaded, onboardedIds, episodesWatchedMap, error>>
    /\ UNCHANGED buildVars

\* StoreRejects of a handler that had set the state before the await
StoreRejects_AfterEarlyUpdate(o) ==
    /\ ops[o].pc = "writing"
    /\ EarlierSettled(o)
    /\ error' = IF ops[o].kind = "mark"
                THEN "Failed to mark episode as watched. Try again."
                ELSE "Failed to unwatch that episode. Try again."
    /\ episodesWatchedMap' =
         [episodesWatchedMap EXCEPT ![ops[o].showId] = ops[o].updatedArray]
    /\ ops' = [ops EXCEPT ![o].pc = "failed"]
    /\ UNCHANGED <<now, store, loaded, onboardedIds>>
    /\ UNCHANGED buildVars

\* updateDoc rejects: the catch logs and sets the error; nothing else is set
StoreRejects(o) ==
    /\ ops[o].pc = "writing"
    /\ EarlierSettled(o)
    /\ error' = IF ops[o].kind = "mark"
                THEN "Failed to mark episode as watched. Try again."
                ELSE "Failed to unwatch that episode. Try again."
    /\ ops' = [ops EXCEPT ![o].pc = "failed"]
    /\ UNCHANGED <<now, store, loaded, onboardedIds, episodesWatchedMap>>
    /\ UNCHANGED buildVars

\* WriteConfirmed of a handler that also takes the card of the episode out of
\* the Upcoming and the Past lists
WriteConfirmed_DropsCard(o) ==
    /\ ops[o].pc = "written"
    /\ EarlierSettled(o)
    /\ episodesWatchedMap' =
         [episodesWatchedMap EXCEPT ![ops[o].showId] = ops[o].updatedArray]
    /\ ops' = [ops EXCEPT ![o].pc = "done"]
    /\ upcomingList' =
         SelectSeq(upcomingList,
                   LAMBDA c : <<c.showId, c.season, c.episode>>
                                 # <<ops[o].showId, ops[o].season, ops[o].episode>>)
    /\ pastEpisodes' =
         SelectSeq(pastEpisodes,
                   LAMBDA c : <<c.showId, c.season, c.episode>>
                                 # <<ops[o].showId, ops[o].season, ops[o].episode>>)
    /\ UNCHANGED <<now, store, loaded, onboardedIds, error,
                   watchNextList, watchedAWhileList, notStartedList, catRun,
                   upRun, pastRun, resolver, histVars, authVars>>

\* updateDoc resolves: setEpisodesWatchedMap((prev) => ({...prev, [showId]: updatedArray}))
WriteConfirmed(o) ==
    /\ ops[o].pc = "written"
    /\ EarlierSettled(o)
    /\ episodesWatchedMap' =
         [episodesWatchedMap EXCEPT ![ops[o].showId] = ops[o].updatedArray]
    /\ ops' = [ops EXCEPT ![o].pc = "done"]
    /\ UNCHANGED <<now, store, loaded, onboardedIds, error>>
    /\ UNCHANGED buildVars

Next ==
    \/ Tick
    \/ LoadUserDoc
    \/ LoadUserDocFails
    \/ \E o \in OpIds, showId \in Shows, s \in 1..2, e \in 1..2 :
          \/ CardMarkClick(o, showId, s, e)
          \/ ModalMark(o, showId, s, e)
          \/ ConfirmedUnmark(o, showId, s, e)
    \/ \E o \in OpIds :
          \/ CardMarkTimer(o)
          \/ StoreApplies(o)
          \/ StoreRejects(o)
          \/ WriteConfirmed(o)

Spec == Init /\ [][Next]_vars

-----------------------------------------------------------------------------
(* SpecPartition: effects 3 and 4 build the Upcoming and the Past lists of a *)
(* loaded page while the clock runs                                          *)

\* IsUpcoming with the test ep.air_date > today
IsUpcoming_StrictlyAfter(air_date, today) == air_date # NoDate /\ air_date > today

\* ep.air_date && ep.air_date >= today
IsUpcoming(air_date, today) == air_date # NoDate /\ air_date >= today

\* ep.air_date && ep.air_date < today
IsPast(air_date, today) == air_date # NoDate /\ air_date < today

\* the body of the loop over the episodes of a season, from position i of the
\* listing: the episodes the effect wants whose details arrive are pushed
RECURSIVE WalkEpisodes(_, _, _, _, _, _)
WalkEpisodes(showId, seasonNum, i, today, upcoming, fails) ==
    LET eps == SeasonEpisodes(showId, seasonNum) IN
    IF i > Len(eps) THEN << >>
    ELSE LET ep     == eps[i]
             wanted == IF upcoming THEN IsUpcoming(ep.air_date, today)
                                   ELSE IsPast(ep.air_date, today)
             rest   == WalkEpisodes(showId, seasonNum, i + 1, today, upcoming, fails)
         IN  IF wanted /\ F_Episode(showId, seasonNum, ep.episode_number) \notin fails
             THEN <<EpisodeInfo(showId, seasonNum, ep.episode_number)>> \o rest
             ELSE rest

\* one turn of the loop over the seasons: a season that cannot be fetched is skipped
WalkSeason(showId, seasonNum, today, upcoming, fails) ==
    IF F_Season(showId, seasonNum) \in fails THEN << >>
    ELSE WalkEpisodes(showId, seasonNum, 1, today, upcoming, fails)

\* the requests a task sends at its step k for a show when those in fails fail:
\* step 0 asks for the show, step k for season k and the episodes wanted in it
StepRequests(showId, k, today, upcoming, fails) ==
    IF k = 0 THEN { F_Show(showId, 1) }
    ELSE { F_Season(showId, k) }
         \cup IF F_Season(showId, k) \in fails THEN {}
              ELSE { F_Episode(showId, k, SeasonEpisodes(showId, k)[i].episode_number) :
                       i \in { j \in 1..Len(SeasonEpisodes(showId, k)) :
                                 LET d == SeasonEpisodes(showId, k)[j].air_date
                                 IN  IF upcoming THEN IsUpcoming(d, today)
                                                 ELSE IsPast(d, today) } }

\* the answers of the catalog to one step: at most MaxFails requests fail in all
StepAnswers(showId, k, today, upcoming, already) ==
    { f \in SUBSET Requests(showId) :
        /\ Cardinality(already \cup f) <= MaxFails
        /\ f \subseteq StepRequests(showId, k, today, upcoming, f) }

\* the step a task is at once it has left the loop over the seasons
TaskDone(showId) == NumberOfSeasons(showId) + 1

\* where the task of a show is after its step k
AfterStep(showId, k, fails) ==
    IF k = 0 /\ F_Show(showId, 1) \in fails THEN TaskDone(showId) ELSE k + 1

\* upcomingEpisodes.sort((a, b) => new Date(a.air_date) - new Date(b.air_date))
RECURSIVE InsertByAirDateAsc(_, _)
InsertByAirDateAsc(x, s) ==
    IF s = << >> THEN <<x>>
    ELSE IF x.air_date <= Head(s).air_date THEN <<x>> \o s
    ELSE <<Head(s)>> \o InsertByAirDateAsc(x, Tail(s))

RECURSIVE SortByAirDateAsc(_)
SortByAirDateAsc(s) ==
    IF s = << >> THEN << >> ELSE InsertByAirDateAsc(Head(s), SortByAirDateAsc(Tail(s)))

\* allPast.sort((a, b) => new Date(b.air_date) - new Date(a.air_date))
RECURSIVE InsertByAirDateDesc(_, _)
InsertByAirDateDesc(x, s) ==
    IF s = << >> THEN <<x>>
    ELSE IF x.air_date >= Head(s).air_date THEN <<x>> \o s
    ELSE <<Head(s)>> \o InsertByAirDateDesc(x, Tail(s))

\* SortByAirDateDesc with the comparator of the Upcoming list, a - b
SortByAirDateDesc_AMinusB(s) == SortByAirDateAsc(s)

RECURSIVE SortByAirDateDesc(_)
SortByAirDateDesc(s) ==
    IF s = << >> THEN << >> ELSE InsertByAirDateDesc(Head(s), SortByAirDateDesc(Tail(s)))

InitPartition ==
    /\ now = T0
    /\ onboardedIds \in IdLists
    /\ loaded = TRUE
    /\ store = EmptyMap
    /\ episodesWatchedMap = EmptyMap
    /\ error = ""
    /\ ops = NoOps
    /\ watchNextList = << >>
    /\ watchedAWhileList = << >>
    /\ notStartedList = << >>
    /\ catRun = IdleCatRun
    /\ upcomingList = << >>
    /\ pastEpisodes = << >>
    /\ upRun = NoRun
    /\ pastRun = NoRun
    /\ resolver = NoResolver
    /\ HistIdle
    /\ AuthIdle

otherVars == <<store, loaded, onboardedIds, episodesWatchedMap, error, ops,
               watchNextList, watchedAWhileList, notStartedList, catRun, resolver,
               histVars, authVars>>

\* a run that has read the clock and started one task for each show
StartedRun(ids, nowT) ==
    [pc |-> "running", today |-> TodayOf(nowT), ids |-> ids,
     at |-> [i \in 1..Len(ids) |-> 0], acc |-> << >>, fails |-> {}]

\* effect 3 up to its Promise.all
UpcomingEffectStart ==
    /\ upRun.pc = "idle"
    /\ IF Len(onboardedIds) = 0
       THEN /\ upcomingList' = << >>
            /\ upRun' = [upRun EXCEPT !.pc = "done"]
       ELSE /\ upRun' = StartedRun(onboardedIds, now)
            /\ UNCHANGED upcomingList
    /\ UNCHANGED <<now, pastEpisodes, pastRun>>
    /\ UNCHANGED otherVars

\* effect 4 up to its Promise.all; the effects of a commit run in their order
PastEffectStart ==
    /\ pastRun.pc = "idle"
    /\ upRun.pc # "idle"
    /\ IF Len(onboardedIds) = 0
       THEN /\ pastEpisodes' = << >>
            /\ pastRun' = [pastRun EXCEPT !.pc = "done"]
       ELSE /\ pastRun' = StartedRun(onboardedIds, now)
            /\ UNCHANGED pastEpisodes
    /\ UNCHANGED <<now, upcomingList, upRun>>
    /\ UNCHANGED otherVars

\* a run after the task of its i-th show has taken its next step with answers f
AfterTaskStep(run, i, upcoming, f) ==
    LET showId == run.ids[i]
        k      == run.at[i]
    IN  [run EXCEPT !.at[i] = AfterStep(showId, k, f),
                    !.acc = IF k = 0 THEN @
                            ELSE @ \o WalkSeason(showId, k, run.today, upcoming, f),
                    !.fails = @ \cup f]

\* the task of one show of effect 3 goes on: the show, then season after season;
\* no task goes on before the effects of the commit have all been started
UpcomingTaskStep ==
    /\ upRun.pc = "running"
    /\ pastRun.pc # "idle"
    /\ \E i \in 1..Len(upRun.ids) :
          /\ upRun.at[i] < TaskDone(upRun.ids[i])
          /\ \E f \in StepAnswers(upRun.ids[i], upRun.at[i], upRun.today, TRUE,
                                   upRun.fails \cup pastRun.fails) :
                upRun' = AfterTaskStep(upRun, i, TRUE, f)
    /\ UNCHANGED <<now, upcomingList, pastEpisodes, pastRun>>
    /\ UNCHANGED otherVars

\* the task of one show of effect 4 goes on
PastTaskStep ==
    /\ pastRun.pc = "running"
    /\ \E i \in 1..Len(pastRun.ids) :
          /\ pastRun.at[i] < TaskDone(pastRun.ids[i])
          /\ \E f \in StepAnswers(pastRun.ids[i], pastRun.at[i], pastRun.today, FALSE,
                                   upRun.fails \cup pastRun.fails) :
                pastRun' = AfterTaskStep(pastRun, i, FALSE, f)
    /\ UNCHANGED <<now, upcomingList, pastEpisodes, upRun>>
    /\ UNCHANGED otherVars

\* Promise.all of effect 3 resolves: sort, setUpcomingList
UpcomingEffectFinish ==
    /\ upRun.pc = "running"
    /\ \A i \in 1..Len(upRun.ids) : upRun.at[i] = TaskDone(upRun.ids[i])
    /\ upcomingList' = SortByAirDateAsc(upRun.acc)
    /\ upRun' = [upRun EXCEPT !.pc = "done"]
    /\ UNCHANGED <<now, pastEpisodes, pastRun>>
    /\ UNCHANGED otherVars

\* Promise.all of effect 4 resolves: sort, setPastEpisodes
PastEffectFinish ==
    /\ pastRun.pc = "running"
    /\ \A i \in 1..Len(pastRun.ids) : pastRun.at[i] = TaskDone(pastRun.ids[i])
    /\ pastEpisodes' = SortByAirDateDesc(pastRun.acc)
    /\ pastRun' = [pastRun EXCEPT !.pc = "done"]
    /\ UNCHANGED <<now, upcomingList, upRun>>
    /\ UNCHANGED otherVars

NextPartition ==
    \/ Tick
    \/ UpcomingEffectStart
    \/ PastEffectStart
    \/ UpcomingTaskStep
    \/ PastTaskStep
    \/ UpcomingEffectFinish
    \/ PastEffectFinish

SpecPartition == InitPartition /\ [][NextPartition]_vars

-----------------------------------------------------------------------------
(* SpecHistory: effect 5 builds the Watch History of a loaded page; the user *)
(* scrolls and switches tabs                                                 *)

\* one element of entries: a WatchedEntry with the id of its show
HistoryEntry(showId, we) ==
    [showId |-> showId, season |-> we.season, episode |-> we.episode,
     watchedAt |-> we.watchedAt]

RECURSIVE FlattenFrom(_, _)
\* Object.entries(episodesWatchedMap).forEach(...): the shows in ascending order
\* of their ids, from showId on, the entries of a show in the order of its log
FlattenFrom(map, showId) ==
    IF \A x \in Shows : x < showId THEN << >>
    ELSE (IF showId \in Shows
          THEN [i \in 1..Len(map[showId]) |-> HistoryEntry(showId, map[showId][i])]
          ELSE << >>)
         \o FlattenFrom(map, showId + 1)

Reverse(s) == [i \in 1..Len(s) |-> s[Len(s) + 1 - i]]

\* HistoryEntries with the comparator a - b: the oldest entry first
HistoryEntries_OldestFirst(map) == Reverse(SortByTimeDesc(FlattenFrom(map, 1)))

\* entries after entries.sort((a, b) => new Date(b.watchedAt) - new Date(a.watchedAt))
HistoryEntries(map) == SortByTimeDesc(FlattenFrom(map, 1))

\* the EpisodeInfo pushed to result; label is `Watched ${watchedAt.split("T")[0]}`
HistoryCard(en) ==
    [showId |-> en.showId, season |-> en.season, episode |-> en.episode,
     air_date |-> EpisodeAirDate(en.showId, en.season, en.episode),
     label |-> TodayOf(en.watchedAt)]

\* the two requests of one turn of the loop of buildHistory
HistoryRequests == {"getEpisodeDetails", "getTVShowDetails"}

\* the answers to the requests of turn i: getTVShowDetails is sent only when
\* getEpisodeDetails was answered; at most MaxFails requests of a run fail
HistoryAnswers(i, already) ==
    { f \in SUBSET { <<i, r>> : r \in HistoryRequests } :
        /\ Cardinality(already \cup f) <= MaxFails
        /\ Cardinality(f) <= 1 }

\* JavaScript's seq.slice(a, b) for 0 <= a <= b
Slice_FromTheEnd(seq, a, b) ==
    SubSeq(seq, Len(seq) - (IF b < Len(seq) THEN b ELSE Len(seq)) + 1, Len(seq) - a)

Slice(seq, a, b) == SubSeq(seq, a + 1, IF b < Len(seq) THEN b ELSE Len(seq))

\* the cards of the "WATCH HISTORY" section, top to bottom:
\* [...watchedHistory.slice(0, historyCount)].reverse(), on tab 0
HistoryShown ==
    IF activeTab = 0 /\ Len(watchedHistory) > 0
    THEN Reverse(Slice(watchedHistory, 0, historyCount))
    ELSE << >>

\* logs as markAsWatched leaves them: each in the order of its watch times
HistoryLogs(x) ==
    IF x = 1
    THEN { << >>,
           << Entry(1, 1, T0 - 50), Entry(1, 2, T0 - 30), Entry(2, 1, T0 - 10) >>,
           << Entry(1, 1, T0 - 50), Entry(1, 2, T0 - 30), Entry(2, 1, T0 - 10),
              Entry(1, 1, T0 - 5) >> }
    ELSE { << >>,
           << Entry(1, 1, T0 - 40), Entry(1, 2, T0 - 30) >> }

HistoryMaps ==
    { [x \in Shows |-> IF x = 1 THEN a ELSE b] : a \in HistoryLogs(1), b \in HistoryLogs(2) }

\* scrollTop values: at the top, inside the top 50 px, below them
ScrollTops == {0, 40, 60}

InitHistory ==
    /\ now = T0
    /\ onboardedIds = DocOnboarded
    /\ episodesWatchedMap \in HistoryMaps
    /\ store = episodesWatchedMap
    /\ loaded = TRUE
    /\ error = ""
    /\ ops = NoOps
    /\ watchNextList = << >>
    /\ watchedAWhileList = << >>
    /\ notStartedList = << >>
    /\ catRun = IdleCatRun
    /\ upcomingList = << >>
    /\ pastEpisodes = << >>
    /\ upRun = NoRun
    /\ pastRun = NoRun
    /\ resolver = NoResolver
    /\ HistIdle
    /\ AuthIdle

restVars == <<now, store, loaded, onboardedIds, episodesWatchedMap, error, ops,
              watchNextList, watchedAWhileList, notStartedList, catRun,
              upcomingList, pastEpisodes, upRun, pastRun, resolver, oldRuns,
              authVars>>

\* buildHistory up to its loop: flatten and sort
HistoryEffectStart ==
    /\ loaded
    /\ histRun.pc = "idle"
    /\ histRun' = [NoHistRun EXCEPT !.pc = "running",
                                    !.entries = HistoryEntries(episodesWatchedMap),
                                    !.idx = 1]
    /\ UNCHANGED <<watchedHistory, historyCount, pastCount, lastScrollTop, activeTab>>
    /\ UNCHANGED restVars

\* one turn of the loop: the details of the episode, then of the show, then the
\* push; the catch of the turn skips the entry
HistoryEffectEntry ==
    /\ histRun.pc = "running"
    /\ histRun.idx <= Len(histRun.entries)
    /\ \E f \in HistoryAnswers(histRun.idx, histRun.fails) :
          histRun' = [histRun EXCEPT
                        !.idx = @ + 1,
                        !.fails = @ \cup f,
                        !.result = IF f = {}
                                   THEN Append(@, HistoryCard(histRun.entries[histRun.idx]))
                                   ELSE @]
    /\ UNCHANGED <<watchedHistory, historyCount, pastCount, lastScrollTop, activeTab>>
    /\ UNCHANGED restVars

\* setWatchedHistory(result)
HistoryEffectFinish ==
    /\ histRun.pc = "running"
    /\ histRun.idx > Len(histRun.entries)
    /\ watchedHistory' = histRun.result
    /\ histRun' = [histRun EXCEPT !.pc = "done"]
    /\ UNCHANGED <<historyCount, pastCount, lastScrollTop, activeTab>>
    /\ UNCHANGED restVars

\* handleScroll with target.scrollTop = curr: the block of the Past Episodes,
\* then the block of the Watch History, then lastScrollTop.current = curr
HandleScroll(curr) ==
    LET intoTop   == curr < 50 /\ lastScrollTop > curr
        afterPast == IF intoTop THEN curr ELSE lastScrollTop
        again     == curr < 50 /\ afterPast > curr
    IN  /\ pastCount' = IF intoTop /\ pastCount < Len(pastEpisodes)
                        THEN pastCount + PageSize ELSE pastCount
        /\ historyCount' = IF again /\ historyCount < Len(watchedHistory)
                           THEN historyCount + PageSize ELSE historyCount
        /\ lastScrollTop' = curr
        /\ UNCHANGED <<watchedHistory, histRun, activeTab>>
        /\ UNCHANGED restVars

\* a tab button sets activeTab; the effect on [activeTab] resets the count of
\* the tab shown and lastScrollTop (on tab 0 to the height of the history
\* section, when it is rendered)
SwitchTab(tab, offsetHeight) ==
    /\ tab # activeTab
    /\ activeTab' = tab
    /\ IF tab = 0
       THEN /\ historyCount' = PageSize
            /\ lastScrollTop' = IF Len(watchedHistory) > 0 THEN offsetHeight
                                ELSE lastScrollTop
            /\ UNCHANGED pastCount
       ELSE /\ pastCount' = PageSize
            /\ lastScrollTop' = 0
            /\ UNCHANGED historyCount
    /\ UNCHANGED <<watchedHistory, histRun>>
    /\ UNCHANGED restVars

NextHistory ==
    \/ HistoryEffectStart
    \/ HistoryEffectEntry
    \/ HistoryEffectFinish
    \/ \E curr \in ScrollTops : HandleScroll(curr)
    \/ \E tab \in {0, 1}, offsetHeight \in ScrollTops : SwitchTab(tab, offsetHeight)

SpecHistory == InitHistory /\ [][NextHistory]_vars

-----------------------------------------------------------------------------
(* SpecRebuild: effect 2 runs again whenever episodesWatchedMap is replaced; *)
(* the run it replaces is not cancelled and goes on. The user marks and      *)
(* unmarks episodes of season 1, one call after the other                    *)

InitRebuild ==
    /\ now = T0
    /\ store \in InitialStores
    /\ loaded = TRUE
    /\ onboardedIds = DocOnboarded
    /\ episodesWatchedMap = store
    /\ error = ""
    /\ ops = NoOps
    /\ watchNextList = << >>
    /\ watchedAWhileList = << >>
    /\ notStartedList = << >>
    /\ catRun = IdleCatRun
    /\ upcomingList = << >>
    /\ pastEpisodes = << >>
    /\ upRun = NoRun
    /\ pastRun = NoRun
    /\ resolver = NoResolver
    /\ HistIdle
    /\ AuthIdle

\* updateDoc resolves: setEpisodesWatchedMap(...), and the render that follows
\* runs effect 2 again (deps [onboardedIds, episodesWatchedMap]) up to its loop;
\* the effect returns no cleanup, so a run still in its loop stays alive
WriteConfirmedRerun(o) ==
    /\ ops[o].pc = "written"
    /\ EarlierSettled(o)
    /\ catRun.pc # "idle"
    /\ episodesWatchedMap' =
         [episodesWatchedMap EXCEPT ![ops[o].showId] = ops[o].updatedArray]
    /\ ops' = [ops EXCEPT ![o].pc = "done"]
    /\ oldRuns' = IF catRun.pc = "running" THEN Append(oldRuns, catRun) ELSE oldRuns
    /\ catRun' = [IdleCatRun EXCEPT !.pc = "running", !.ids = onboardedIds,
                                    !.map = episodesWatchedMap', !.now = now,
                                    !.idx = 1]
    /\ UNCHANGED <<now, store, loaded, onboardedIds, error,
                   watchNextList, watchedAWhileList, notStartedList,
                   upcomingList, pastEpisodes, upRun, pastRun, resolver,
                   watchedHistory, historyCount, histRun, pastCount, lastScrollTop,
                   activeTab, authVars>>

\* the run after one turn of its loop over onboardedIds with the answers f
SupersededTurn(run, f) ==
    LET showId == run.ids[run.idx]
        out    == ClassifyShow(showId, run.map[showId], run.now, f)
        info   == EpisodeInfo(showId, out.season, out.episode)
        seen   == [run EXCEPT !.fails = @ \cup f, !.outcomes = Append(@, out)]
    IN  IF out.kind = "throw"
        THEN [seen EXCEPT !.pc = "aborted"]
        ELSE [seen EXCEPT
                !.idx = @ + 1,
                !.nextArr = IF out.kind = "next" THEN Append(@, info) ELSE @,
                !.aWhileArr = IF out.kind = "stale" THEN Append(@, info) ELSE @,
                !.notStartedArr = IF out.kind = "notStarted" THEN Append(@, info) ELSE @]

\* one turn of the loop of a run that a later run of effect 2 has followed
SupersededShow(i) ==
    /\ i \in 1..Len(oldRuns)
    /\ oldRuns[i].pc = "running"
    /\ oldRuns[i].idx <= Len(oldRuns[i].ids)
    /\ \E f \in Answers(oldRuns[i].ids[oldRuns[i].idx],
                        oldRuns[i].map[oldRuns[i].ids[oldRuns[i].idx]],
                        oldRuns[i].fails) :
          /\ oldRuns' = [oldRuns EXCEPT ![i] = SupersededTurn(oldRuns[i], f)]
          /\ error' = IF SupersededTurn(oldRuns[i], f).pc = "aborted"
                      THEN "Failed to build your watch categories." ELSE error
    /\ UNCHANGED <<now, store, loaded, onboardedIds, episodesWatchedMap, ops,
                   watchNextList, watchedAWhileList, notStartedList, catRun,
                   upcomingList, pastEpisodes, upRun, pastRun, resolver,
                   watchedHistory, historyCount, histRun, pastCount, lastScrollTop,
                   activeTab, authVars>>

\* the end of such a run: its three setters are called like those of any run
SupersededFinish(i) ==
    /\ i \in 1..Len(oldRuns)
    /\ oldRuns[i].pc = "running"
    /\ oldRuns[i].idx > Len(oldRuns[i].ids)
    /\ watchNextList' = oldRuns[i].nextArr
    /\ watchedAWhileList' = oldRuns[i].aWhileArr
    /\ notStartedList' = oldRuns[i].notStartedArr
    /\ oldRuns' = [oldRuns EXCEPT ![i].pc = "done"]
    /\ UNCHANGED <<now, store, loaded, onboardedIds, episodesWatchedMap, error, ops,
                   catRun, upcomingList, pastEpisodes, upRun, pastRun, resolver,
                   watchedHistory, historyCount, histRun, pastCount, lastScrollTop,
                   activeTab, authVars>>

\* the modal's button on an unwatched episode of season 1, no call in flight
MarkWhenSettled(o, showId, e) == InFlight = {} /\ ModalMark(o, showId, 1, e)

\* the confirmed unmark of a watched episode of season 1, no call in flight
UnmarkWhenSettled(o, showId, e) == InFlight = {} /\ ConfirmedUnmark(o, showId, 1, e)

NextRebuild ==
    \/ CategoryEffectStart
    \/ CategoryEffectShow
    \/ CategoryEffectFinish
    \/ \E o \in OpIds, showId \in Shows, e \in 1..2 :
          \/ MarkWhenSettled(o, showId, e)
          \/ UnmarkWhenSettled(o, showId, e)
    \/ \E o \in OpIds :
          \/ StoreApplies(o)
          \/ StoreRejects(o)
          \/ WriteConfirmedRerun(o)
    \/ \E i \in 1..MaxOps :
          \/ SupersededShow(i)
          \/ SupersededFinish(i)

SpecRebuild == InitRebuild /\ [][NextRebuild]_vars

-----------------------------------------------------------------------------
(* SpecMarkedLists: effects 3 and 4 build the Upcoming and the Past lists of *)
(* a page with show 1 onboarded while the user marks and unmarks episodes of *)
(* season 1, one call after the other                                        *)

InitMarkedLists ==
    /\ now = T0
    /\ store \in InitialStores
    /\ loaded = TRUE
    /\ onboardedIds = <<1>>
    /\ episodesWatchedMap = store
    /\ error = ""
    /\ ops = NoOps
    /\ watchNextList = << >>
    /\ watchedAWhileList = << >>
    /\ notStartedList = << >>
    /\ catRun = IdleCatRun
    /\ upcomingList = << >>
    /\ pastEpisodes = << >>
    /\ upRun = NoRun
    /\ pastRun = NoRun
    /\ resolver = NoResolver
    /\ HistIdle
    /\ AuthIdle

\* effects 3 and 4 have the deps [onboardedIds]: a render with a new
\* episodesWatchedMap runs neither of them again
NextMarkedLists ==
    \/ UpcomingEffectStart
    \/ PastEffectStart
    \/ UpcomingTaskStep
    \/ PastTaskStep
    \/ UpcomingEffectFinish
    \/ PastEffectFinish
    \/ \E o \in OpIds, showId \in Shows, e \in 1..2 :
          \/ MarkWhenSettled(o, showId, e)
          \/ UnmarkWhenSettled(o, showId, e)
    \/ \E o \in OpIds :
          \/ StoreApplies(o)
          \/ StoreRejects(o)
          \/ WriteConfirmed(o)

SpecMarkedLists == InitMarkedLists /\ [][NextMarkedLists]_vars

-----------------------------------------------------------------------------
(* SpecConfirm: the user marks episodes and answers the window.confirm of   *)
(* the unmark buttons with OK or with Cancel                                 *)

\* DeclinedUnmark of a button that sends the write before it asks
DeclinedUnmark_WritesThenAsks(o, showId, s, e) ==
    /\ loaded
    /\ NextCall(o)
    /\ <<s, e>> \in PairsOf(episodesWatchedMap[showId])
    /\ ops' = [ops EXCEPT ![o] =
                  [IdleOp EXCEPT !.pc = "declined", !.kind = "unmark", !.showId = showId,
                                 !.season = s, !.episode = e,
                                 !.during = InFlight]]
    /\ store' = [store EXCEPT ![showId] = WithoutEpisode(episodesWatchedMap[showId], s, e)]
    /\ UNCHANGED <<now, loaded, onboardedIds, episodesWatchedMap, error>>
    /\ UNCHANGED buildVars

\* the check of a history card or of the modal on a watched episode, window.confirm
\* answered with Cancel: the handler returns; the click is noted in ops
DeclinedUnmark(o, showId, s, e) ==
    /\ loaded
    /\ NextCall(o)
    /\ <<s, e>> \in PairsOf(episodesWatchedMap[showId])
    /\ ops' = [ops EXCEPT ![o] =
                  [IdleOp EXCEPT !.pc = "declined", !.kind = "unmark", !.showId = showId,
                                 !.season = s, !.episode = e,
                                 !.during = InFlight]]
    /\ UNCHANGED <<now, store, loaded, onboardedIds, episodesWatchedMap, error>>
    /\ UNCHANGED buildVars

NextConfirm ==
    \/ \E o \in OpIds, showId \in Shows, s \in 1..2, e \in 1..2 :
          \/ ModalMark(o, showId, s, e)
          \/ ConfirmedUnmark(o, showId, s, e)
          \/ DeclinedUnmark(o, showId, s, e)
    \/ \E o \in OpIds :
          \/ StoreApplies(o)
          \/ StoreRejects(o)
          \/ WriteConfirmed(o)

SpecConfirm == InitRebuild /\ [][NextConfirm]_vars

-----------------------------------------------------------------------------
(* SpecSignUp: two calls of AuthProvider.signUp, each with its own e-mail    *)
(* address, against the usernames collection                                 *)

\* a string is the sequence of its characters
RECURSIVE TrimStart(_)
TrimStart(str) ==
    IF str # << >> /\ Head(str) = " " THEN TrimStart(Tail(str)) ELSE str

RECURSIVE TrimEnd(_)
TrimEnd(str) ==
    IF str # << >> /\ str[Len(str)] = " " THEN TrimEnd(SubSeq(str, 1, Len(str) - 1))
    ELSE str

\* str.trim()
Trim(str) == TrimEnd(TrimStart(str))

\* str.toLowerCase(), for the letters of the inputs
ToLowerCase(str) == [i \in 1..Len(str) |-> IF str[i] = "A" THEN "a" ELSE str[i]]

\* usernameInput.trim().toLowerCase()
unameKeyOf(usernameInput) == ToLowerCase(Trim(usernameInput))

\* what the users type into the username field
UsernameInputs ==
    { << >>, <<" ">>, <<"a">>, <<"A">>, <<" ", "a">>, <<"A", " ">>, <<"b">> }

\* checkUsernameExists: docSnap.exists() of usernames/<unameKey>
checkUsernameExists(docs, username) == unameKeyOf(username) \in DOMAIN docs

\* setDoc(doc(db, "usernames", unameKey), {uid, email}): the document is
\* created or replaced
registerUsername(docs, uid, username) ==
    [k \in DOMAIN docs \cup {unameKeyOf(username)} |->
        IF k = unameKeyOf(username) THEN uid ELSE docs[k]]

InitSignUp ==
    /\ now = T0
    /\ store = EmptyMap
    /\ loaded = FALSE
    /\ onboardedIds = << >>
    /\ episodesWatchedMap = EmptyMap
    /\ error = ""
    /\ ops = NoOps
    /\ watchNextList = << >>
    /\ watchedAWhileList = << >>
    /\ notStartedList = << >>
    /\ catRun = IdleCatRun
    /\ upcomingList = << >>
    /\ pastEpisodes = << >>
    /\ upRun = NoRun
    /\ pastRun = NoRun
    /\ resolver = NoResolver
    /\ HistIdle
    /\ AuthIdle

signedOutVars == <<now, store, loaded, onboardedIds, episodesWatchedMap, error, ops,
                   watchNextList, watchedAWhileList, notStartedList, catRun,
                   upcomingList, pastEpisodes, upRun, pastRun, resolver, histVars>>

\* signUp up to its first await: the key, the empty-name error, getDoc is sent
SignUpCalled(c, usernameInput) ==
    /\ signUps[c].pc = "idle"
    /\ \A k \in SignUpIds : k < c => signUps[k].pc # "idle"
    /\ signUps' = [signUps EXCEPT ![c] =
          IF unameKeyOf(usernameInput) = << >>
          THEN [IdleSignUp EXCEPT !.pc = "failed", !.usernameInput = usernameInput,
                                  !.thrown = "Username cannot be empty."]
          ELSE [IdleSignUp EXCEPT !.pc = "checking", !.usernameInput = usernameInput,
                                  !.unameKey = unameKeyOf(usernameInput)]]
    /\ UNCHANGED usernames
    /\ UNCHANGED signedOutVars

\* the answer of checkUsernameExists: the throw, or signUpWithEmail is sent
UsernameChecked(c) ==
    /\ signUps[c].pc = "checking"
    /\ signUps' = [signUps EXCEPT ![c] =
          IF checkUsernameExists(usernames, signUps[c].unameKey)
          THEN [@ EXCEPT !.pc = "failed",
                         !.thrown = "Username already taken. Please choose another one."]
          ELSE [@ EXCEPT !.pc = "creating"]]
    /\ UNCHANGED usernames
    /\ UNCHANGED signedOutVars

\* createUserWithEmailAndPassword resolves with the new user; registerUsername
\* sends its first setDoc
AuthUserCreated(c) ==
    /\ signUps[c].pc = "creating"
    /\ signUps' = [signUps EXCEPT ![c].pc = "registering", ![c].uid = c]
    /\ UNCHANGED usernames
    /\ UNCHANGED signedOutVars

\* createUserWithEmailAndPassword rejects (weak password, e-mail in use)
AuthUserRejected(c) ==
    /\ signUps[c].pc = "creating"
    /\ signUps' = [signUps EXCEPT ![c].pc = "failed", ![c].thrown = "auth"]
    /\ UNCHANGED usernames
    /\ UNCHANGED signedOutVars

\* Firestore applies the setDoc of usernames/<unameKey>
UsernameRegistered(c) ==
    /\ signUps[c].pc = "registering"
    /\ usernames' = registerUsername(usernames, signUps[c].uid, signUps[c].unameKey)
    /\ signUps' = [signUps EXCEPT ![c].pc = "registered"]
    /\ UNCHANGED signedOutVars

\* the rest of signUp: setDoc of users/<uid>, sendEmailVerification, signOut
SignUpCompleted(c) ==
    /\ signUps[c].pc = "registered"
    /\ signUps' = [signUps EXCEPT ![c].pc = "done"]
    /\ UNCHANGED usernames
    /\ UNCHANGED signedOutVars

NextSignUp ==
    \/ \E c \in SignUpIds, usernameInput \in UsernameInputs : SignUpCalled(c, usernameInput)
    \/ \E c \in SignUpIds :
          \/ UsernameChecked(c)
          \/ AuthUserCreated(c)
          \/ AuthUserRejected(c)
          \/ UsernameRegistered(c)
          \/ SignUpCompleted(c)

SpecSignUp == InitSignUp /\ [][NextSignUp]_vars

-----------------------------------------------------------------------------
(* Properties of the normaliser and the resolver (SpecResolver) *)

\* the catalog episodes of the seasons the walk received
ReturnedPairs(showId, fails) ==
    { p \in CatalogPairs(showId) : F_Season(showId, p[1]) \notin fails }

\* the received episodes that are absent from the watch set
Gaps(showId, watched, fails) == ReturnedPairs(showId, fails) \ watched

\* the latest watchedAt among the entries of one pair
MaxStamp(entries, key) ==
    LET ts == { entries[i].watchedAt : i \in { j \in 1..Len(entries) : KeyOf(entries[j]) = key } }
    IN  CHOOSE t \in ts : \A u \in ts : TimeOf(u) <= TimeOf(t)

\* the latest watchedAt of a non-empty list of entries
LatestStamp(entries) ==
    LET ts == { entries[i].watchedAt : i \in 1..Len(entries) }
    IN  CHOOSE t \in ts : \A u \in ts : TimeOf(u) <= TimeOf(t)

\* C1: for a non-empty normalised watch set the resolver reports the first
\* unwatched episode in (season, episode) order over the seasons the catalog
\* returned: the reported episode is unwatched, no received episode before it is
\* unwatched, null is reported only when there is no gap, and a gap is reported
\* whenever the show request and the requests for the gap episodes succeed.
C1_FirstUnwatchedInOrder ==
    (resolver.pc = "done" /\ resolver.deduped # << >>) =>
        LET gaps == Gaps(resolver.show, PairsOf(resolver.deduped), resolver.fails)
            hit  == <<resolver.found.season, resolver.found.episode>>
        IN  /\ resolver.found.kind = "found" =>
                   /\ hit \in gaps
                   /\ \A g \in gaps : ~Before(g, hit)
            /\ resolver.found.kind = "null" => gaps = {}
            /\ ( /\ gaps # {}
                 /\ F_Show(resolver.show, 1) \notin resolver.fails
                 /\ \A g \in gaps : F_Episode(resolver.show, g[1], g[2]) \notin resolver.fails )
               => resolver.found.kind = "found"

\* C1, reached: S1E2 is watched, S1E1 is not, and S1E1 is reported
C1_Witness ==
    /\ resolver.pc = "done"
    /\ resolver.show = 1
    /\ PairsOf(resolver.deduped) = { <<1, 2>> }
    /\ resolver.found = Found(1, 1)

\* C2: dedupeWatchedEntries returns exactly one entry for each (season, episode)
\* pair of the input and none for other pairs; the entry kept carries the latest
\* watchedAt of the raw entries of its pair; an empty input gives an empty result.
C2_DedupKeepsLatestPerPair ==
    resolver.pc \in {"normalized", "done"} =>
        LET raw == resolver.raw
            d   == resolver.deduped
        IN  /\ PairsOf(d) = PairsOf(raw)
            /\ Len(d) = Cardinality(PairsOf(raw))
            /\ \A i \in 1..Len(d) : d[i].watchedAt = MaxStamp(raw, KeyOf(d[i]))
            /\ raw = << >> => d = << >>

\* C2, reached: two entries of S1E1, the later one second, and the later one is kept
C2_Witness ==
    /\ resolver.pc = "normalized"
    /\ resolver.raw = << Entry(1, 1, T0 - ThirtyDays), Entry(1, 1, T0 - ThirtyDays + 1) >>
    /\ resolver.deduped = << Entry(1, 1, T0 - ThirtyDays + 1) >>

\* C3 (as claimed): a show with a gap whose latest watchedAt is exactly
\* now - 30 days is put in Next, and one second earlier in Stale.
C3_BoundaryInclusive ==
    (resolver.pc = "done" /\ resolver.cat.kind \in {"next", "stale"}) =>
        /\ LatestStamp(resolver.deduped) = now - ThirtyDays => resolver.cat.kind = "next"
        /\ LatestStamp(resolver.deduped) = now - ThirtyDays - 1 => resolver.cat.kind = "stale"

\* C10: a season whose request fails is skipped and the walk goes on: it is never
\* reported as the gap, its failure alone never ends the walk, and a gap of a
\* later season is still found (in that later season when no earlier season has one).
C10_FailedSeasonSkipped ==
    (resolver.pc = "done" /\ resolver.deduped # << >>) =>
        \A s \in 1..NumberOfSeasons(resolver.show) :
            F_Season(resolver.show, s) \in resolver.fails =>
                LET gaps  == Gaps(resolver.show, PairsOf(resolver.deduped), resolver.fails)
                    clean == /\ F_Show(resolver.show, 1) \notin resolver.fails
                             /\ \A g \in gaps :
                                   F_Episode(resolver.show, g[1], g[2]) \notin resolver.fails
                IN  /\ resolver.found.kind = "found" => resolver.found.season # s
                    /\ clean => resolver.found.kind # "throw"
                    /\ (clean /\ \E g \in gaps : g[1] > s) =>
                          /\ resolver.found.kind = "found"
                          /\ (\A g \in gaps : g[1] > s) => resolver.found.season > s

\* C10, reached: season 1 cannot be fetched and the gap of season 2 is reported
C10_Witness ==
    /\ resolver.pc = "done"
    /\ resolver.show = 1
    /\ resolver.deduped # << >>
    /\ F_Season(1, 1) \in resolver.fails
    /\ resolver.found = Found(2, 1)

\* the entries of a list, as a set
EntrySet(entries) == { entries[i] : i \in 1..Len(entries) }

\* C19: the normaliser applied to its own output gives the same set of entries
\* as applied once, and its output has no two entries of one (season, episode)
C19_NormalizationIdempotent ==
    resolver.pc \in {"normalized", "done"} =>
        /\ EntrySet(dedupeWatchedEntries(resolver.deduped)) = EntrySet(resolver.deduped)
        /\ \A i, j \in 1..Len(resolver.deduped) :
              KeyOf(resolver.deduped[i]) = KeyOf(resolver.deduped[j]) => i = j

\* C19, reached: a raw log of three entries with a repeated pair was normalised
\* to two entries
C19_Witness ==
    /\ resolver.pc = "normalized"
    /\ Len(resolver.raw) = 3
    /\ Len(resolver.deduped) = 2
    /\ resolver.raw[1].watchedAt < resolver.raw[3].watchedAt
    /\ KeyOf(resolver.raw[1]) = KeyOf(resolver.raw[3])

\* the watched episodes that come before the reported gap, in (season, episode) order
BeforeGap(entries, found) ==
    { i \in 1..Len(entries) : Before(KeyOf(entries[i]), <<found.season, found.episode>>) }

\* C21: a show with a gap is put in Next when the latest watchedAt of all the
\* entries of its normalised watch set is less than 30 days before the build,
\* and in Stale when it is more than 30 days before it, whichever episode that
\* entry belongs to and whatever the watch time of the episodes before the gap.
C21_LatestOfAllEntriesDecides ==
    (resolver.pc = "done" /\ resolver.cat.kind \in {"next", "stale"}) =>
        /\ LatestStamp(resolver.deduped) > now - ThirtyDays => resolver.cat.kind = "next"
        /\ LatestStamp(resolver.deduped) < now - ThirtyDays => resolver.cat.kind = "stale"

\* C21, reached: the episode before the gap was watched more than 30 days ago,
\* an episode after the gap less than 30 days ago, and the show is in Next
C21_Witness ==
    /\ resolver.pc = "done"
    /\ resolver.cat.kind = "next"
    /\ resolver.found.kind = "found"
    /\ BeforeGap(resolver.deduped, resolver.found) # {}
    /\ \A i \in BeforeGap(resolver.deduped, resolver.found) :
          resolver.deduped[i].watchedAt < now - ThirtyDays
    /\ \E i \in 1..Len(resolver.deduped) :
          /\ i \notin BeforeGap(resolver.deduped, resolver.found)
          /\ resolver.deduped[i].watchedAt > now - ThirtyDays

-----------------------------------------------------------------------------
(* Properties of the category build (SpecBuilder) *)

ShowsIn(list) == { list[i].showId : i \in 1..Len(list) }

\* the shows the run has pushed to one of its three arrays
PushedShows ==
    ShowsIn(catRun.nextArr) \cup ShowsIn(catRun.aWhileArr) \cup ShowsIn(catRun.notStartedArr)

\* the shows of the three lists on display
ListedShows ==
    ShowsIn(watchNextList) \cup ShowsIn(watchedAWhileList) \cup ShowsIn(notStartedList)

\* the normalised watch set of a show of the run
RunWatched(x) == PairsOf(dedupeWatchedEntries(catRun.map[x]))

\* C5 (as claimed): when the only requests that fail in a build are show-level
\* requests of one onboarded show, the build is not aborted and every other
\* onboarded show that has no entries or has a gap is given its entry.
C5_ShowFailureIsolated ==
    \A i, j \in 1..Len(catRun.ids) :
        LET a == catRun.ids[i]
            b == catRun.ids[j]
        IN  ( /\ catRun.pc \in {"done", "aborted"}
              /\ a # b
              /\ catRun.fails # {}
              /\ catRun.fails \subseteq {F_Show(a, 1), F_Show(a, 2)}
              /\ (RunWatched(b) = {} \/ Gaps(b, RunWatched(b), {}) # {}) )
            => (catRun.pc = "done" /\ b \in ListedShows)

\* C6: a show whose non-empty normalised watch set holds every pair of the
\* seasons the walk received resolves to Complete with no next episode, and is
\* in none of the three arrays of the run nor, once they are stored, of the lists.
C6_CompleteShowInNoBucket ==
    \A i \in 1..Len(catRun.outcomes) :
        LET x == catRun.ids[i] IN
        ( /\ RunWatched(x) # {}
          /\ F_Show(x, 1) \notin catRun.fails
          /\ ReturnedPairs(x, catRun.fails) \subseteq RunWatched(x) )
        => /\ catRun.outcomes[i] = Outcome("complete", 0, 0)
           /\ x \notin PushedShows
           /\ catRun.pc = "done" => x \notin ListedShows

\* C6, reached: show 1 with all three episodes watched is left out, show 2 is listed
C6_Witness ==
    /\ catRun.pc = "done"
    /\ catRun.ids = <<1, 2>>
    /\ RunWatched(1) = CatalogPairs(1)
    /\ catRun.fails = {}
    /\ catRun.outcomes[1].kind = "complete"
    /\ ListedShows = {2}

\* C9: a show with no watched entries is given S1E1 in NotStarted when the
\* requests for S1E1 and for the show succeed; when the request for S1E1 fails the
\* show is in no bucket, no error is set and the loop goes on to the other shows.
C9_NeverWatchedShow ==
    /\ \A i \in 1..Len(catRun.outcomes) :
          LET x == catRun.ids[i] IN
          RunWatched(x) = {} =>
              /\ (F_Episode(x, 1, 1) \notin catRun.fails /\ F_Show(x, 1) \notin catRun.fails)
                    => /\ catRun.outcomes[i] = Outcome("notStarted", 1, 1)
                       /\ \E k \in 1..Len(catRun.notStartedArr) :
                             catRun.notStartedArr[k] = EpisodeInfo(x, 1, 1)
                       /\ x \notin ShowsIn(catRun.nextArr) \cup ShowsIn(catRun.aWhileArr)
                       /\ catRun.pc = "done" =>
                             \E k \in 1..Len(notStartedList) :
                                 notStartedList[k] = EpisodeInfo(x, 1, 1)
              /\ F_Episode(x, 1, 1) \in catRun.fails
                    => /\ catRun.outcomes[i].kind = "skipped"
                       /\ x \notin PushedShows
                       /\ catRun.pc = "done" => x \notin ListedShows
              /\ catRun.outcomes[i].kind # "throw"
              /\ catRun.idx > i
    /\ (\A i \in 1..Len(catRun.ids) : RunWatched(catRun.ids[i]) = {})
          => (catRun.pc # "aborted" /\ error = "")

\* C9, reached: S1E1 of show 1 does not exist; show 2, processed after it, is in
\* NotStarted and no error is set
C9_Witness ==
    /\ catRun.pc = "done"
    /\ catRun.ids = <<1, 2>>
    /\ RunWatched(1) = {} /\ RunWatched(2) = {}
    /\ catRun.fails = {F_Episode(1, 1, 1)}
    /\ notStartedList = << EpisodeInfo(2, 1, 1) >>
    /\ watchNextList = << >> /\ watchedAWhileList = << >>
    /\ error = ""

\* the cards a list holds for a show
CardsOf(list, x) == Cardinality({ k \in 1..Len(list) : list[k].showId = x })

\* C11 (as claimed): when the only requests that fail in a build are requests
\* for the details of episodes of one onboarded show, the build is not aborted
\* and every other onboarded show that has no entries or has a gap is given its
\* entry.
C11_EpisodeFailureSwallowed ==
    \A i, j \in 1..Len(catRun.ids) :
        LET a == catRun.ids[i]
            b == catRun.ids[j]
        IN  ( /\ catRun.pc \in {"done", "aborted"}
              /\ a # b
              /\ catRun.fails # {}
              /\ \A f \in catRun.fails : f.fn = "getEpisodeDetails" /\ f.show = a
              /\ (RunWatched(b) = {} \/ Gaps(b, RunWatched(b), {}) # {}) )
            => (catRun.pc = "done" /\ b \in ListedShows)

\* C20: the three arrays of a build, and the three lists once a build has stored
\* them, hold at most one card for each show, and only cards of onboarded shows
C20_OneEntryPerShow ==
    /\ \A x \in Shows :
          CardsOf(catRun.nextArr, x) + CardsOf(catRun.aWhileArr, x)
              + CardsOf(catRun.notStartedArr, x) <= 1
    /\ catRun.pc = "done" =>
          /\ \A x \in Shows :
                CardsOf(watchNextList, x) + CardsOf(watchedAWhileList, x)
                    + CardsOf(notStartedList, x) <= 1
          /\ ListedShows \subseteq { onboardedIds[i] : i \in 1..Len(onboardedIds) }

\* C20, reached: show 1, watched recently with a gap, is in Watch Next and only
\* there; show 2, watched 30 days ago with a gap, is in the stale list and only there
C20_Witness ==
    /\ catRun.pc = "done"
    /\ catRun.ids = <<1, 2>>
    /\ Cardinality(Gaps(1, RunWatched(1), {})) >= 2
    /\ CardsOf(watchNextList, 1) = 1
    /\ CardsOf(watchedAWhileList, 2) = 1
    /\ Len(watchNextList) + Len(watchedAWhileList) + Len(notStartedList) = 2

-----------------------------------------------------------------------------
(* Properties of marking and unmarking (Spec) *)

\* what a finished call was made for: the episode is, or is no longer, in the log
EffectIn(o, map) ==
    IF ops[o].kind = "mark"
    THEN <<ops[o].season, ops[o].episode>> \in PairsOf(map[ops[o].showId])
    ELSE <<ops[o].season, ops[o].episode>> \notin PairsOf(map[ops[o].showId])

\* one of the two calls was made before the handler of the other had finished
Overlapped(o1, o2) == o1 \in ops[o2].during \/ o2 \in ops[o1].during

\* two calls on one show, on different episodes, and no third call on that show
TwoCallsOnOneShow(o1, o2) ==
    /\ o1 # o2
    /\ ops[o1].pc = "done" /\ ops[o2].pc = "done"
    /\ ops[o1].showId = ops[o2].showId
    /\ <<ops[o1].season, ops[o1].episode>> # <<ops[o2].season, ops[o2].episode>>
    /\ \A k \in OpIds \ {o1, o2} : ops[k].pc = "idle" \/ ops[k].showId # ops[o1].showId

\* C4: when two marks or unmarks of one show overlap and both complete, the store
\* holds the effect of both of them: no write is lost
C4_NoLostWrite ==
    \A o1 \in OpIds, o2 \in OpIds :
        (TwoCallsOnOneShow(o1, o2) /\ Overlapped(o1, o2))
            => (EffectIn(o1, store) /\ EffectIn(o2, store))

\* C7: the in-memory log changes only when a store write has been confirmed, to
\* the array that was written; a rejected write leaves the log and the store as
\* they were and sets the error
C7_UpdateOnlyAfterConfirmedWrite ==
    [][ /\ \A o \in OpIds :
             (ops[o].pc = "writing" /\ ops'[o].pc = "failed")
                 => /\ episodesWatchedMap' = episodesWatchedMap
                    /\ store' = store
                    /\ error' # ""
        /\ (loaded /\ episodesWatchedMap' # episodesWatchedMap)
             => \E o \in OpIds :
                   /\ ops[o].pc = "written" /\ ops'[o].pc = "done"
                   /\ episodesWatchedMap' =
                        [episodesWatchedMap EXCEPT ![ops[o].showId] = ops[o].updatedArray]
      ]_vars

\* a mark was rejected while another call was confirmed: the error is set and the
\* log holds the confirmed call's array, nothing of the rejected one
C7_Witness ==
    \E o \in OpIds :
        /\ ops[o].pc = "failed"
        /\ ops[o].kind = "mark"
        /\ error = "Failed to mark episode as watched. Try again."
        /\ ~EffectIn(o, episodesWatchedMap)
        /\ ~EffectIn(o, store)
        /\ \E k \in OpIds : ops[k].pc = "done" /\ EffectIn(k, episodesWatchedMap)

\* C14: the stored log of a show changes only in the write of a call on that
\* show, and after the load its in-memory log changes only when a call on that
\* show is confirmed: a call on a show leaves the logs of the other shows alone
C14_OtherShowsUntouched ==
    [][ \A x \in Shows :
          /\ store'[x] # store[x]
                => \E o \in OpIds : /\ ops[o].showId = x
                                    /\ ops[o].pc = "writing" /\ ops'[o].pc = "written"
          /\ (loaded /\ episodesWatchedMap'[x] # episodesWatchedMap[x])
                => \E o \in OpIds : /\ ops[o].showId = x
                                    /\ ops[o].pc = "written" /\ ops'[o].pc = "done"
      ]_vars

\* C14, reached: a call on show 1 and a call on show 2 were in flight together and
\* both are done; the store and the in-memory log hold what both were made for
C14_Witness ==
    \E o1 \in OpIds, o2 \in OpIds :
        /\ ops[o1].pc = "done" /\ ops[o2].pc = "done"
        /\ ops[o1].showId = 1 /\ ops[o2].showId = 2
        /\ Overlapped(o1, o2)
        /\ EffectIn(o1, store) /\ EffectIn(o2, store)
        /\ EffectIn(o1, episodesWatchedMap) /\ EffectIn(o2, episodesWatchedMap)
        /\ store = episodesWatchedMap

\* the entries of a log other than those of the episode, in their order
EntriesBut(entries, s, e) == SelectSeq(entries, LAMBDA we : KeyOf(we) # <<s, e>>)

\* C26: the step that completes a successful unmark of (s, e) leaves the
\* in-memory log of the show, and the store, with no entry of (s, e) and with
\* all the other entries the log had before the step, in their order.
C26_UnmarkRemovesOnlyTheEpisode ==
    [][\A o \in OpIds :
          (ops[o].kind = "unmark" /\ ops[o].pc = "written" /\ ops'[o].pc = "done")
             => /\ episodesWatchedMap'[ops[o].showId]
                     = EntriesBut(episodesWatchedMap[ops[o].showId],
                                  ops[o].season, ops[o].episode)
                /\ <<ops[o].season, ops[o].episode>>
                      \notin PairsOf(episodesWatchedMap'[ops[o].showId])]_vars

-----------------------------------------------------------------------------
(* Properties of the Upcoming and Past lists (SpecPartition) *)

\* how many cards of a list are for an episode
CardsFor(list, showId, p) ==
    Cardinality({ i \in 1..Len(list) :
                    list[i].showId = showId /\ <<list[i].season, list[i].episode>> = p })

\* the requests whose answers decide whether an episode gets a card
RequestsFor(showId, p) ==
    { F_Show(showId, 1), F_Season(showId, p[1]), F_Episode(showId, p[1], p[2]) }

\* C8: once both lists are built, every catalog episode of an onboarded show
\* that has an air date, and whose requests were all answered, has exactly one
\* card in the Past and Upcoming lists together: never in both, never in neither
C8_ExactlyOneOfPastAndUpcoming ==
    (upRun.pc = "done" /\ pastRun.pc = "done")
        => \A i \in 1..Len(onboardedIds) :
             \A p \in CatalogPairs(onboardedIds[i]) :
                (/\ EpisodeAirDate(onboardedIds[i], p[1], p[2]) # NoDate
                 /\ RequestsFor(onboardedIds[i], p) \cap (upRun.fails \cup pastRun.fails) = {})
                    => CardsFor(upcomingList, onboardedIds[i], p)
                         + CardsFor(pastEpisodes, onboardedIds[i], p) = 1

\* the requests of a run that an episode's card depends on were all answered
Answered(run, showId, p) == RequestsFor(showId, p) \cap run.fails = {}

\* C15: a stored Upcoming list holds one card for each fetched episode of the
\* onboarded shows whose air date is the day its effect read or a later day, and
\* no other card; a stored Past list holds one card for each fetched episode
\* whose air date is before the day its effect read, and no other card; an
\* episode with no air date has no card in either list
C15_ClassifiedByAirDate ==
    /\ upRun.pc = "done" =>
          /\ \A i \in 1..Len(onboardedIds) : \A p \in CatalogPairs(onboardedIds[i]) :
                LET x == onboardedIds[i]
                    d == EpisodeAirDate(x, p[1], p[2])
                IN  CardsFor(upcomingList, x, p) =
                        IF d # NoDate /\ d >= upRun.today /\ Answered(upRun, x, p)
                        THEN 1 ELSE 0
          /\ \A k \in 1..Len(upcomingList) :
                /\ upcomingList[k].air_date # NoDate
                /\ upcomingList[k].air_date >= upRun.today
    /\ pastRun.pc = "done" =>
          /\ \A i \in 1..Len(onboardedIds) : \A p \in CatalogPairs(onboardedIds[i]) :
                LET x == onboardedIds[i]
                    d == EpisodeAirDate(x, p[1], p[2])
                IN  CardsFor(pastEpisodes, x, p) =
                        IF d # NoDate /\ d < pastRun.today /\ Answered(pastRun, x, p)
                        THEN 1 ELSE 0
          /\ \A k \in 1..Len(pastEpisodes) :
                /\ pastEpisodes[k].air_date # NoDate
                /\ pastEpisodes[k].air_date < pastRun.today

\* C15, reached: both effects read the same day; the episode of show 1 that airs
\* that day is upcoming, the one that aired the day before is past, and the
\* episode of show 2 that has no air date is in neither list
C15_Witness ==
    /\ upRun.pc = "done" /\ pastRun.pc = "done"
    /\ upRun.today = pastRun.today
    /\ upRun.fails = {} /\ pastRun.fails = {}
    /\ CardsFor(upcomingList, 1, <<1, 2>>) = 1
    /\ EpisodeAirDate(1, 1, 2) = upRun.today
    /\ CardsFor(pastEpisodes, 1, <<1, 1>>) = 1
    /\ EpisodeAirDate(2, 1, 1) = NoDate
    /\ 2 \in ShowsIn(upcomingList)
    /\ CardsFor(upcomingList, 2, <<1, 1>>) + CardsFor(pastEpisodes, 2, <<1, 1>>) = 0

\* C16: the Upcoming list is in ascending order of air date and the Past list
\* in descending order of air date, at every moment
C16_ListsSorted ==
    /\ \A i, j \in 1..Len(upcomingList) :
          i < j => upcomingList[i].air_date <= upcomingList[j].air_date
    /\ \A i, j \in 1..Len(pastEpisodes) :
          i < j => pastEpisodes[i].air_date >= pastEpisodes[j].air_date

\* C16, reached: the cards of both lists were pushed out of order and stored in order
C16_Witness ==
    /\ upRun.pc = "done" /\ pastRun.pc = "done"
    /\ Len(upcomingList) >= 2 /\ upcomingList # upRun.acc
    /\ upcomingList[1].air_date < upcomingList[Len(upcomingList)].air_date
    /\ Len(pastEpisodes) >= 2 /\ pastEpisodes # pastRun.acc
    /\ pastEpisodes[1].air_date > pastEpisodes[Len(pastEpisodes)].air_date

-----------------------------------------------------------------------------
(* Properties of the Watch History (SpecHistory) *)

\* the number of entries of all the logs of the map
RECURSIVE TotalEntries(_, _)
TotalEntries(map, S) ==
    IF S = {} THEN 0
    ELSE LET x == CHOOSE y \in S : TRUE
         IN  Len(map[x]) + TotalEntries(map, S \ {x})

\* how often the entry occurs in a sequence of history entries
Occurrences(seq, en) == Cardinality({ i \in 1..Len(seq) : seq[i] = en })

\* the turns of the run whose two requests were answered, in ascending order
RECURSIVE AnsweredTurns(_, _)
AnsweredTurns(run, i) ==
    IF i > Len(run.entries) THEN << >>
    ELSE (IF \E r \in HistoryRequests : <<i, r>> \in run.fails THEN << >> ELSE <<i>>)
         \o AnsweredTurns(run, i + 1)

\* C17 as stated: once buildHistory has stored its result, the Watch History
\* holds one card for every watched entry of every show, the most recently
\* watched first.
C17_EveryEntryInHistory ==
    histRun.pc = "done" =>
       /\ Len(watchedHistory) = TotalEntries(episodesWatchedMap, Shows)
       /\ \A i \in 1..Len(watchedHistory) :
             watchedHistory[i] = HistoryCard(histRun.entries[i])
       /\ \A i, j \in 1..Len(histRun.entries) :
             i < j => histRun.entries[i].watchedAt >= histRun.entries[j].watchedAt

\* C17, amended: the list buildHistory stores holds, in descending order of
\* watchedAt, one card for every entry of the watch log (of every show,
\* duplicates included) whose episode details and show details were both
\* fetched; an entry with a failed request has no card.
C17_FetchedEntriesInHistory ==
    histRun.pc = "done" =>
       LET kept == AnsweredTurns(histRun, 1)
       IN  /\ \A x \in Shows : \A k \in 1..Len(episodesWatchedMap[x]) :
                 LET en == HistoryEntry(x, episodesWatchedMap[x][k])
                 IN  Occurrences(histRun.entries, en)
                        = Occurrences(FlattenFrom(episodesWatchedMap, 1), en)
           /\ Len(histRun.entries) = TotalEntries(episodesWatchedMap, Shows)
           /\ \A i, j \in 1..Len(histRun.entries) :
                 i < j => histRun.entries[i].watchedAt >= histRun.entries[j].watchedAt
           /\ Len(watchedHistory) = Len(kept)
           /\ \A k \in 1..Len(kept) :
                 watchedHistory[k] = HistoryCard(histRun.entries[kept[k]])

\* a stored history of two shows, six entries, one of them skipped
C17_Witness ==
    /\ histRun.pc = "done"
    /\ histRun.fails # {}
    /\ Len(histRun.entries) = 6
    /\ Len(watchedHistory) = 5
    /\ \E i, j \in 1..Len(watchedHistory) :
          watchedHistory[i].showId # watchedHistory[j].showId

\* C18: on the history tab the cards offered for rendering are exactly the
\* first min(N, total) entries of the Watch History, N the history count
\* (5 at the start), shown bottom-up; a step that changes N leaves the Watch
\* History as it is.
C18_FirstNOffered ==
    /\ [](activeTab = 0 =>
            LET total == Len(watchedHistory)
                n     == IF historyCount < total THEN historyCount ELSE total
            IN  /\ Len(HistoryShown) = n
                /\ \A k \in 1..n : HistoryShown[n + 1 - k] = watchedHistory[k])
    /\ [][historyCount' # historyCount => watchedHistory' = watchedHistory]_vars

\* six entries in the history, five of them offered
C18_Witness ==
    /\ activeTab = 0
    /\ historyCount = PageSize
    /\ Len(watchedHistory) = 6
    /\ Len(HistoryShown) = 5

\* C25: on the history tab, a scroll event whose position is lower than that of
\* the previous scroll event and inside the top 50 px, while fewer history
\* entries are shown than exist, raises the history count by 5.
C25_ScrollUpLoadsMoreHistory ==
    [][(/\ activeTab = 0 /\ activeTab' = 0
        /\ lastScrollTop' < lastScrollTop
        /\ lastScrollTop' < 50
        /\ historyCount < Len(watchedHistory))
          => historyCount' = historyCount + PageSize]_vars

-----------------------------------------------------------------------------
(* Properties of the rebuilt categories (SpecRebuild) *)

\* the EpisodeInfo list the loop of effect 2 builds for one bucket from the
\* watch log map, the clock value nowT and the failed requests
RECURSIVE BucketFrom(_, _, _, _, _)
BucketFrom(kind, ids, map, nowT, fails) ==
    IF ids = << >> THEN << >>
    ELSE LET showId == Head(ids)
             out    == ClassifyShow(showId, map[showId], nowT, fails)
         IN  (IF out.kind = kind
              THEN << EpisodeInfo(showId, out.season, out.episode) >> ELSE << >>)
             \o BucketFrom(kind, Tail(ids), map, nowT, fails)

\* nothing is in flight: every call has ended, one of them with a confirmed
\* write, the latest run of effect 2 has called its setters and every earlier
\* run has ended
Settled ==
    /\ InFlight = {}
    /\ \E o \in OpIds : ops[o].pc = "done"
    /\ catRun.pc = "done"
    /\ \A i \in 1..Len(oldRuns) : oldRuns[i].pc \in {"done", "aborted"}

\* C12: once a mark or unmark has succeeded and nothing is in flight any more,
\* Watch Next, Haven't Watched For A While and Haven't Started are the lists the
\* builder computes from the watch log as it is now; the result of a build that
\* started from an older watch log is not what stays displayed.
C12_BucketsFollowTheLog ==
    Settled =>
       /\ watchNextList =
            BucketFrom("next", onboardedIds, episodesWatchedMap, catRun.now, catRun.fails)
       /\ watchedAWhileList =
            BucketFrom("stale", onboardedIds, episodesWatchedMap, catRun.now, catRun.fails)
       /\ notStartedList =
            BucketFrom("notStarted", onboardedIds, episodesWatchedMap, catRun.now,
                       catRun.fails)

-----------------------------------------------------------------------------
(* Properties of the lists under marking (SpecMarkedLists) *)

\* C22: no step of a mark or an unmark changes the Upcoming list, the Past
\* list or a partition in flight, and a stored list holds the card of every
\* fetched episode its air date puts there, watched or not: the partition
\* follows the onboarded shows, the catalog and the day it read, not the log.
C22_ListsIgnoreMarks ==
    /\ [][(ops' # ops \/ episodesWatchedMap' # episodesWatchedMap \/ store' # store)
            => /\ upcomingList' = upcomingList
               /\ pastEpisodes' = pastEpisodes
               /\ upRun' = upRun
               /\ pastRun' = pastRun]_vars
    /\ [](upRun.pc = "done" =>
            \A i \in 1..Len(onboardedIds) : \A p \in CatalogPairs(onboardedIds[i]) :
               LET x == onboardedIds[i]
                   d == EpisodeAirDate(x, p[1], p[2])
               IN  CardsFor(upcomingList, x, p) =
                       IF d # NoDate /\ d >= upRun.today /\ Answered(upRun, x, p)
                       THEN 1 ELSE 0)
    /\ [](pastRun.pc = "done" =>
            \A i \in 1..Len(onboardedIds) : \A p \in CatalogPairs(onboardedIds[i]) :
               LET x == onboardedIds[i]
                   d == EpisodeAirDate(x, p[1], p[2])
               IN  CardsFor(pastEpisodes, x, p) =
                       IF d # NoDate /\ d < pastRun.today /\ Answered(pastRun, x, p)
                       THEN 1 ELSE 0)

\* C22, reached: both lists are stored, then S1E1 of show 1 (in the Past list)
\* and S1E2 (in the Upcoming list) are marked, and both still have their cards
C22_Witness ==
    /\ upRun.pc = "done" /\ pastRun.pc = "done"
    /\ \A o \in OpIds : ops[o].pc = "done" /\ ops[o].kind = "mark"
    /\ PairsOf(episodesWatchedMap[1]) = { <<1, 1>>, <<1, 2>> }
    /\ CardsFor(pastEpisodes, 1, <<1, 1>>) = 1
    /\ CardsFor(upcomingList, 1, <<1, 2>>) = 1

-----------------------------------------------------------------------------
(* Properties of the normaliser on malformed timestamps (SpecNormalizer) *)

\* the entries of a pair in a list of entries
EntriesOfPair(entries, key) ==
    { entries[i] : i \in { j \in 1..Len(entries) : KeyOf(entries[j]) = key } }

\* C23: the normaliser treats a malformed watchedAt as the earliest time: a
\* pair that has a raw entry with a valid watchedAt and one with a malformed
\* watchedAt is kept with a valid watchedAt, whatever the order of the raw entries.
C23_ValidEntryRetained ==
    resolver.pc = "normalized" =>
        \A key \in PairsOf(resolver.raw) :
            (\E we \in EntriesOfPair(resolver.raw, key) : we.watchedAt # InvalidDate)
                => \A we \in EntriesOfPair(resolver.deduped, key) :
                      we.watchedAt # InvalidDate

-----------------------------------------------------------------------------
(* Properties of the confirmation of an unmark (SpecConfirm) *)

\* C24: the step in which the confirmation of an unmark is declined changes
\* neither the store nor the in-memory watch log nor the error, the click stays
\* without a call ever after, and a call of unmarkAsWatched is in flight only
\* from a step in which the confirmation was accepted.
C24_DeclinedUnmarkDoesNothing ==
    /\ [][\A o \in OpIds :
            (ops[o].pc # "declined" /\ ops'[o].pc = "declined")
               => /\ store' = store
                  /\ episodesWatchedMap' = episodesWatchedMap
                  /\ error' = error]_vars
    /\ [][\A o \in OpIds : ops[o].pc = "declined" => ops'[o] = ops[o]]_vars
    /\ [][\A o \in OpIds :
            (ops'[o].kind = "unmark" /\ ops'[o].pc = "writing" /\ ops[o].pc # "writing")
               => /\ ops[o].pc = "idle"
                  /\ <<ops'[o].season, ops'[o].episode>>
                        \in PairsOf(episodesWatchedMap[ops'[o].showId])]_vars

\* C24, reached: the unmark of S1E1 of show 2 was declined and the episode is
\* still in the store and in memory; asked again, it was confirmed and written
C24_Witness ==
    /\ ops[1].pc = "declined"
    /\ <<ops[1].showId, ops[1].season, ops[1].episode>> = <<2, 1, 1>>
    /\ ops[2].kind = "unmark" /\ ops[2].pc = "written"
    /\ <<1, 1>> \in PairsOf(episodesWatchedMap[2])
    /\ <<1, 1>> \notin PairsOf(store[2])

-----------------------------------------------------------------------------
(* Properties of the sign-up (SpecSignUp) *)

\* the sign-ups that have registered their username
Registered == { c \in SignUpIds : signUps[c].pc \in {"registered", "done"} }

\* C27: of two sign-ups with the same trimmed, lower-cased username at most one
\* registers it, the username document keeps the uid of the one that did, and
\* the other one has failed with 'Username already taken'.
C27_UsernameRegisteredOnce ==
    /\ \A c \in Registered : usernames[signUps[c].unameKey] = signUps[c].uid
    /\ \A c1, c2 \in SignUpIds :
          (/\ c1 # c2
           /\ c1 \in Registered
           /\ unameKeyOf(signUps[c2].usernameInput) = signUps[c1].unameKey)
             => c2 \notin Registered

-----------------------------------------------------------------------------
(* Marking a surfaced episode, then the build that follows (SpecFreshMark) *)

\* the episode is on a card of one of the three displayed lists
Surfaced(showId, s, e) ==
    \E list \in {watchNextList, watchedAWhileList, notStartedList} :
        \E k \in 1..Len(list) :
            <<list[k].showId, list[k].season, list[k].episode>> = <<showId, s, e>>

\* the modal's button on the episode of a displayed card, once the build that
\* displayed it is over and no call is in flight
MarkSurfaced(o, showId, s, e) ==
    /\ InFlight = {}
    /\ catRun.pc \in {"done", "aborted"}
    /\ Surfaced(showId, s, e)
    /\ ModalMark(o, showId, s, e)

NextFreshMark ==
    \/ CategoryEffectStart
    \/ CategoryEffectShow
    \/ CategoryEffectFinish
    \/ \E o \in OpIds, showId \in Shows, s \in 1..2, e \in 1..2 :
          MarkSurfaced(o, showId, s, e)
    \/ \E o \in OpIds :
          \/ StoreApplies(o)
          \/ StoreRejects(o)
          \/ WriteConfirmedRerun(o)

SpecFreshMark == InitRebuild /\ [][NextFreshMark]_vars

\* the runs of effect 2 that have been started
StartedBuilds ==
    { r \in {catRun} \cup { oldRuns[i] : i \in 1..Len(oldRuns) } : r.pc # "idle" }

\* the log the run read for the show has an entry less than 30 days old
HasFreshEntry(r, x) ==
    \E i \in 1..Len(r.map[x]) : r.map[x][i].watchedAt > r.now - ThirtyDays

\* C29: a build that reads a watch log with an entry of the show written less
\* than 30 days before the build puts the show neither in Haven't Watched For A
\* While nor in Haven't Started; when its requests are answered, the show is put
\* in Watch Next or left out as complete.
C29_FreshlyMarkedShowIsNext ==
    \A r \in StartedBuilds : \A k \in 1..Len(r.outcomes) :
        HasFreshEntry(r, r.ids[k]) =>
            /\ r.ids[k] \notin ShowsIn(r.aWhileArr) \cup ShowsIn(r.notStartedArr)
            /\ r.fails = {} =>
                  /\ r.outcomes[k].kind \in {"next", "complete"}
                  /\ r.outcomes[k].kind = "next" <=> r.ids[k] \in ShowsIn(r.nextArr)

\* C29, reached: show 1, whose log was empty, is displayed in Watch Next after
\* the mark of S1E1; show 2 is still displayed in Haven't Watched For A While
\* with S1E2, which has been marked, and the build that followed the mark has
\* put show 1 in Watch Next and left show 2 out
C29_Witness ==
    /\ \E k \in 1..Len(watchNextList) :
          <<watchNextList[k].showId, watchNextList[k].season, watchNextList[k].episode>>
             = <<1, 1, 2>>
    /\ \E k \in 1..Len(watchedAWhileList) :
          <<watchedAWhileList[k].showId, watchedAWhileList[k].season,
            watchedAWhileList[k].episode>> = <<2, 1, 2>>
    /\ PairsOf(episodesWatchedMap[1]) = {<<1, 1>>}
    /\ <<1, 2>> \in PairsOf(episodesWatchedMap[2])
    /\ catRun.pc = "running" /\ catRun.idx = 3 /\ catRun.fails = {}
    /\ catRun.map = episodesWatchedMap
    /\ HasFreshEntry(catRun, 1) /\ HasFreshEntry(catRun, 2)
    /\ ShowsIn(catRun.nextArr) = {1}
    /\ catRun.outcomes[2].kind = "complete"

-----------------------------------------------------------------------------
(* The bucket as a function of the watched pairs and the latest watch *)

StampsIn(entries) == { entries[i].watchedAt : i \in 1..Len(entries) }

\* the maximum watchedAt of a log, a watchedAt that does not parse counting as
\* the earliest time
LatestValid(entries) ==
    LET ts == StampsIn(entries) \ {InvalidDate}
    IN  IF ts = {} THEN InvalidDate
        ELSE CHOOSE t \in ts : \A u \in ts : TimeOf(u) <= TimeOf(t)

\* the raw logs with the pairs and the maximum watchedAt of a given log
SameProgress(showId, entries) ==
    { r \in SeqsUpTo(EntriesOf(showId, StampsIn(entries)), MaxLen) :
        /\ PairsOf(r) = PairsOf(entries)
        /\ LatestValid(r) = LatestValid(entries) }

\* C30: the bucket and the episode a turn of the build gives a show are those
\* it gives, with the same answers of the catalog, on every raw log with the
\* same set of (season, episode) pairs and the same maximum watchedAt:
\* permutations of the log and logs with older duplicates included.
C30_BucketDependsOnPairsAndLatest ==
    resolver.pc = "done" =>
        \A r \in SameProgress(resolver.show, resolver.raw) :
            ClassifyAnyLog(resolver.show, r, now, resolver.fails) = {resolver.cat}

====
